---- MODULE Spec2Model ----
(***************************************************************************)
(* Model of the sales-analytics pipeline orchestrated by python/main.py:   *)
(* CSVLoader.load_sales_data, DataValidator.validate_all,                  *)
(* KPICalculator.calculate_all_kpis, ChartGenerator.generate_all_charts    *)
(* and ReportGenerator.generate_all_reports, all of them talking to the    *)
(* Record Store through OracleConnector.                                   *)
(*                                                                         *)
(* One action is one step of main() or of a callee; a step that can raise  *)
(* has a succeeding and a raising branch.  An exception in flight is the   *)
(* variable error; it unwinds through the except clauses and the with      *)
(* blocks of the source before it reaches the handler of main().           *)
(*                                                                         *)
(* The analytics functions (InsightGenerator.detect_outliers and           *)
(* detect_trends, detect_outliers of streamlit_app.py) are operators over  *)
(* a KPI series; InsightSpec draws the series from a bounded set and       *)
(* applies them.  Means, deviations and percentages are kept exact by      *)
(* comparing cross-multiplied integers.                                    *)
(***************************************************************************)
EXTENDS Integers, Sequences, FiniteSets, TLC

\* Largest number of data rows of the input file.
MaxRows == 2

\* Largest number of rows SALES_TRANSACTIONS holds before the run.
MaxPriorRows == 1

required_columns ==
    {"transaction_date", "customer_id", "product_id",
     "quantity", "unit_price", "total_amount"}

optional_columns == {"region_id", "discount_percentage"}

\* The procedures of PKG_KPI_CALCULATIONS in the order calculate_all_kpis
\* calls them.
Families ==
    << "CALC_REVENUE_BY_REGION", "CALC_MONTHLY_REVENUE_TREND",
       "CALC_TOP_CUSTOMERS", "CALC_PRODUCT_PERFORMANCE",
       "CALC_AVG_TRANSACTION_VALUE" >>

\* The checks of PKG_DATA_VALIDATION in the order validate_all calls them.
Checks == << "sales_data", "referential_integrity", "duplicates" >>

Statuses == {"PASS", "FAIL", "WARN"}

NoResults ==
    [sales_data |-> "unset", referential_integrity |-> "unset",
     duplicates |-> "unset"]

VARIABLES
    pc,                  \* position of the run in main() and its callees
    argv,                \* sys.argv[1:], the csv file name when supplied
    config_exists,       \* config.yaml is present
    csv_exists,          \* the csv file is at input_path / csv_file
    csv_columns,         \* header of the csv file
    csv_rows,            \* number of data rows of the csv file
    archived,            \* number of files renamed into archive_data
    load_commits,        \* committed batch inserts of the csv file's rows
    runs,                \* runs of main.py started so far
    SALES_TRANSACTIONS,  \* committed rows of SALES_TRANSACTIONS: a row of
                         \* the csv file is its line number, a row loaded
                         \* by an earlier run a negative number
    KPI_RESULTS,         \* committed KPI families of KPI_RESULTS
    connection,          \* db.connection of the current with block
    open_connections,    \* sessions the Record Store holds open
    pending_sales,       \* uncommitted inserted rows of the open transaction
    pending_kpi,         \* uncommitted KPI families of the open transaction
    family,              \* index in Families of the procedure at hand
    check,               \* index in Checks of the validation at hand
    validation_results,  \* results dict of validate_all
    logged_results,      \* results written by logger.info in main()
    started,             \* stages whose start main() has logged, in order
    completed,           \* stages whose call has returned to main()
    procs_called,        \* KPI procedures invoked, in order
    unit,                \* index in Units of the with block at hand
    artifacts,           \* chart and report files written
    error,               \* the exception in flight or caught, "none" if none
    raised_in,           \* the stage whose code raised error
    rolled_back,         \* connection.rollback() calls of the run
    exit_code,           \* exit status of the process, -1 while it runs
    series,              \* rows (date, value) the analytics function reads
    fn,                  \* the analytics function applied, "none" before
    threshold_percent,   \* argument of InsightGenerator.detect_outliers
    periods,             \* argument of InsightGenerator.detect_trends
    threshold,           \* argument of detect_outliers of streamlit_app,
                         \* a fraction << numerator, denominator >>
    outlier_rows,        \* positions in series of the rows returned by
                         \* InsightGenerator.detect_outliers
    outlier_buckets,     \* dates returned by detect_outliers of streamlit_app
    results,             \* rows fetched by the query of detect_trends
    df,                  \* the fetched rows after df.sort_values('KPI_DATE')
    trend,               \* what detect_trends returns or raises
    sales_df,            \* the transactions an aggregation reads
    agg_fn,              \* the aggregation applied, "none" before
    kpi_results,         \* rows built by generate_kpi_results, in order
    agg_error,           \* exception raised by the aggregation, or "none"
    total_revenue,       \* compute_kpis(df)["total_revenue"]
    rbr,                 \* rows of revenue_by_region(df), in order
    revenue,             \* per-date sums built by the dashboard's detector
    pp,                  \* rows of product_performance(df), in order
    top_n,               \* argument n of top_customers
    top_cust,            \* rows of top_customers(df, n), in order
    monthly,             \* rows of monthly_trend(df), in order
    csv_frame,           \* the frame pd.read_csv gives load_sales_data
    load_df,             \* df of load_sales_data
    data_tuples,         \* the tuples load_sales_data hands to the insert
    loader_pc,           \* position in the row preparation of the loader
    demo_pc,             \* position of run_demo
    demo_unit,           \* index of the chart or report method at hand
    patched,             \* class attributes run_demo has replaced
    issued,              \* calls of the mock's execute_query, in order
    demo_files,          \* chart and report files run_demo has written
    real_connects        \* OracleConnector.connect() calls of run_demo

vars ==
    << pc, argv, config_exists, csv_exists, csv_columns, csv_rows, archived,
       load_commits, runs, SALES_TRANSACTIONS, KPI_RESULTS, connection, open_connections,
       pending_sales, pending_kpi, family, check, validation_results,
       logged_results, started, completed, procs_called, unit, artifacts,
       error, raised_in, rolled_back, exit_code, series, fn,
       threshold_percent, periods, threshold, outlier_rows, outlier_buckets,
       results, df, trend, sales_df, agg_fn, kpi_results, agg_error,
       total_revenue, rbr, revenue, pp, top_n, top_cust, monthly, csv_frame,
       load_df, data_tuples, loader_pc, demo_pc, demo_unit, patched, issued,
       demo_files, real_connects >>

\* The operands and results of the analytics functions.
insight ==
    << series, fn, threshold_percent, periods, threshold, outlier_rows,
       outlier_buckets, results, df, trend >>

\* The operands and results of the aggregations over transactions.
aggregation ==
    << sales_df, agg_fn, kpi_results, agg_error, total_revenue, rbr,
       revenue, pp, top_n, top_cust, monthly >>

\* The frame of the loader's row preparation and what it is turned into.
loader == << csv_frame, load_df, data_tuples, loader_pc >>

\* The state of a run of run_demo.
demo ==
    << demo_pc, demo_unit, patched, issued, demo_files, real_connects >>

files == << csv_exists, csv_columns, csv_rows, archived, load_commits >>
\* What no step of main() assigns: the command line, the configuration and
\* the operands of a separate call of an analytics function.
inputs == << argv, config_exists, runs, insight, aggregation, loader, demo >>
store == << SALES_TRANSACTIONS, KPI_RESULTS >>
txn == << pending_sales, pending_kpi >>
conn == << connection, open_connections >>
progress == << started, completed >>
validation == << check, validation_results, logged_results >>
kpi == << family, procs_called >>
report == << unit, artifacts >>

LoadingPcs ==
    {"load_init", "load_exists", "load_read_csv", "load_columns",
     "load_clean", "load_connect", "load_tuples", "load_executemany",
     "load_commit", "load_insert_except", "load_with_exit", "load_archive"}

ValidatingPcs ==
    {"validate_connect", "validate_callproc", "validate_with_exit"}

AggregatingPcs ==
    {"kpi_connect", "kpi_callproc", "kpi_commit", "kpi_except",
     "kpi_with_exit"}

\* The data rows of the csv file.
FileRows == 1..csv_rows

\* The rows an earlier run has loaded.
PriorRows(n) == {0 - i : i \in 1..n}

\* The state of the orchestrator's state machine, read off the position.
Stage ==
    CASE pc = "start" -> "Idle"
      [] pc \in LoadingPcs -> "Loading"
      [] pc \in ValidatingPcs -> "Validating"
      [] pc \in AggregatingPcs -> "Aggregating"
      [] pc = "main_done" -> "Done"
      [] pc = "main_except" -> "Failed"
      [] pc = "exit" -> IF exit_code = 0 THEN "Done" ELSE "Failed"
      [] OTHER -> "Reporting"

\* No analytics function has been applied; the arguments have the
\* defaults of the source (insight_generator.py 40 and 81,
\* streamlit_app.py 166).
NoTrend == [kind |-> "none", direction |-> "", percent |-> 0, finite |-> TRUE]

InsightIdle ==
    /\ fn = "none"
    /\ threshold_percent = 20
    /\ periods = 3
    /\ threshold = << 5, 2 >>
    /\ outlier_rows = {}
    /\ outlier_buckets = {}
    /\ results = << >>
    /\ df = << >>
    /\ trend = NoTrend

\* load_sales_data is not preparing rows.
LoaderIdle ==
    /\ csv_frame = [columns |-> {}, rows |-> << >>]
    /\ load_df = csv_frame
    /\ data_tuples = << >>
    /\ loader_pc = "none"

\* run_demo has not been started.
DemoIdle ==
    /\ demo_pc = "none"
    /\ demo_unit = 1
    /\ patched = {}
    /\ issued = << >>
    /\ demo_files = {}
    /\ real_connects = 0

\* No aggregation has been applied.
AggregationIdle ==
    /\ agg_fn = "none"
    /\ kpi_results = << >>
    /\ agg_error = "none"
    /\ total_revenue = 0
    /\ rbr = << >>
    /\ revenue = << >>
    /\ pp = << >>
    /\ top_n = 10
    /\ top_cust = << >>
    /\ monthly = << >>

Init ==
    /\ series = << >>
    /\ InsightIdle
    /\ sales_df = << >>
    /\ AggregationIdle
    /\ LoaderIdle
    /\ DemoIdle
    /\ pc = "start"
    /\ argv \in {<< >>, <<"sales.csv">>}
    /\ config_exists \in BOOLEAN
    /\ csv_exists \in BOOLEAN
    /\ csv_columns \in
         IF csv_exists /\ argv # << >>
         THEN SUBSET (required_columns \cup optional_columns)
         ELSE {required_columns}
    /\ csv_rows \in IF csv_exists /\ argv # << >> THEN 0..MaxRows ELSE {0}
    /\ archived = 0
    /\ load_commits = 0
    /\ runs = 1
    /\ SALES_TRANSACTIONS \in {PriorRows(n) : n \in 0..MaxPriorRows}
    /\ KPI_RESULTS = {}
    /\ connection = "None"
    /\ open_connections = 0
    /\ pending_sales = {}
    /\ pending_kpi = {}
    /\ family = 1
    /\ check = 1
    /\ validation_results = NoResults
    /\ logged_results = NoResults
    /\ started = << >>
    /\ completed = {}
    /\ procs_called = << >>
    /\ unit = 1
    /\ artifacts = {}
    /\ error = "none"
    /\ raised_in = "none"
    /\ rolled_back = 0
    /\ exit_code = -1

----------------------------------------------------------------------------
(* Exceptions and the connector                                            *)

\* raise: the exception kind is in flight and control goes to target, the
\* innermost enclosing except clause, with exit, or the handler of main().
Raise(kind, target) ==
    /\ error' = kind
    /\ raised_in' = Stage
    /\ pc' = target

\* OracleConnector(): __init__ loads config.yaml.
ConnectorInit == config_exists

\* OracleConnector.__enter__ -> connect() succeeding.
Connect ==
    /\ connection' = "open"
    /\ open_connections' = open_connections + 1

\* A disconnect() that closes the cursor and leaves the connection.
DisconnectCursorOnly ==
    /\ UNCHANGED conn
    /\ pending_sales' = {}
    /\ pending_kpi' = {}

\* OracleConnector.__exit__ -> disconnect(): closes cursor and connection;
\* the Record Store discards the uncommitted work of a closed session.
Disconnect ==
    /\ connection' = IF connection = "open" THEN "closed" ELSE connection
    /\ open_connections' =
         IF connection = "open" THEN open_connections - 1
         ELSE open_connections
    /\ pending_sales' = {}
    /\ pending_kpi' = {}

\* connection.rollback(): the uncommitted work of the transaction is undone.
Rollback ==
    /\ pending_sales' = {}
    /\ pending_kpi' = {}
    /\ rolled_back' = rolled_back + 1

\* A with exit whose __exit__ returns True: the exception is suppressed and
\* the statement after the block runs.
WithExitSuppress(onReturn, onError) ==
    /\ Disconnect
    /\ pc' = onReturn

\* with exit: __exit__ returns None, so an exception in flight keeps
\* propagating to onError, and a normal exit continues at onReturn.
WithExit(onReturn, onError) ==
    /\ Disconnect
    /\ pc' = IF error = "none" THEN onReturn ELSE onError

----------------------------------------------------------------------------
(* main(): step 1, load                                                    *)

\* A main() that loads the csv file of the input directory whether or not
\* one is named on the command line.
MainStartAlwaysLoad ==
    /\ pc = "start"
    /\ pc' = "load_init"
    /\ started' = Append(started, "Loading")
    /\ UNCHANGED << report, inputs, files, store, conn, txn, validation,
                    kpi, completed, error, raised_in, rolled_back,
                    exit_code >>

\* main.py 33-43: the Loading stage is entered when a csv file is supplied,
\* otherwise the run goes on to step 2.
MainStart ==
    /\ pc = "start"
    /\ IF Len(argv) > 0
       THEN /\ pc' = "load_init"
            /\ started' = Append(started, "Loading")
       ELSE /\ pc' = "validate_connect"
            /\ started' = Append(started, "Validating")
    /\ UNCHANGED << report, inputs, files, store, conn, txn, validation, kpi,
                    completed, error, raised_in, rolled_back, exit_code >>

\* CSVLoader.__init__: load_config raises when config.yaml is missing.
LoadInit ==
    /\ pc = "load_init"
    /\ IF config_exists
       THEN pc' = "load_exists" /\ UNCHANGED << error, raised_in >>
       ELSE Raise("FileNotFoundError", "main_except")
    /\ UNCHANGED << report, inputs, files, store, conn, txn, validation, kpi,
                    progress, rolled_back, exit_code >>

\* csv_loader.py 38-40: the file must be at the input path.
LoadExists ==
    /\ pc = "load_exists"
    /\ IF csv_exists
       THEN pc' = "load_read_csv" /\ UNCHANGED << error, raised_in >>
       ELSE Raise("FileNotFoundError", "main_except")
    /\ UNCHANGED << report, inputs, files, store, conn, txn, validation, kpi,
                    progress, rolled_back, exit_code >>

\* csv_loader.py 46: pd.read_csv raises on a file without a header.
LoadReadCsv ==
    /\ pc = "load_read_csv"
    /\ IF csv_columns # {}
       THEN pc' = "load_columns" /\ UNCHANGED << error, raised_in >>
       ELSE Raise("EmptyDataError", "main_except")
    /\ UNCHANGED << report, inputs, files, store, conn, txn, validation, kpi,
                    progress, rolled_back, exit_code >>

\* A required-column list that leaves out unit_price.
missing_columns_short == (required_columns \ {"unit_price"}) \ csv_columns

\* csv_loader.py 50-52: the required columns the header lacks.
missing_columns == required_columns \ csv_columns

\* csv_loader.py 49-54: a file that lacks a required column is rejected.
LoadColumns ==
    /\ pc = "load_columns"
    /\ IF missing_columns = {}
       THEN pc' = "load_clean" /\ UNCHANGED << error, raised_in >>
       ELSE Raise("ValueError", "main_except")
    /\ UNCHANGED << report, inputs, files, store, conn, txn, validation, kpi,
                    progress, rolled_back, exit_code >>

\* csv_loader.py 56-58: pd.to_datetime raises on a row whose date does not
\* parse; fillna(0) then replaces every missing value.
LoadClean ==
    /\ pc = "load_clean"
    /\ \/ pc' = "load_connect" /\ UNCHANGED << error, raised_in >>
       \/ csv_rows > 0 /\ Raise("ValueError", "main_except")
    /\ UNCHANGED << report, inputs, files, store, conn, txn, validation, kpi,
                    progress, rolled_back, exit_code >>

\* csv_loader.py 61: with OracleConnector() as db.  An exception of
\* __init__ or __enter__ leaves the with statement without __exit__.
LoadConnect ==
    /\ pc = "load_connect"
    /\ \/ /\ ConnectorInit
          /\ Connect
          /\ pc' = "load_tuples"
          /\ UNCHANGED << error, raised_in >>
       \/ /\ ConnectorInit
          /\ Raise("DatabaseError", "main_except")
          /\ UNCHANGED conn
       \/ /\ ~ConnectorInit
          /\ Raise("FileNotFoundError", "main_except")
          /\ UNCHANGED conn
    /\ UNCHANGED << report, inputs, files, store, txn, validation, kpi, progress,
                    rolled_back, exit_code >>

\* csv_loader.py 82-94: int() and float() raise on a value that is not a
\* number; the exception leaves the with block.
LoadTuples ==
    /\ pc = "load_tuples"
    /\ \/ pc' = "load_executemany" /\ UNCHANGED << error, raised_in >>
       \/ csv_rows > 0 /\ Raise("ValueError", "load_with_exit")
    /\ UNCHANGED << report, inputs, files, store, conn, txn, validation, kpi,
                    progress, rolled_back, exit_code >>

\* An executemany on an autocommit connection: every inserted row is
\* committed at once.
LoadExecutemanyAutocommit ==
    /\ pc = "load_executemany"
    /\ \/ /\ SALES_TRANSACTIONS' = SALES_TRANSACTIONS \cup FileRows
          /\ pc' = "load_commit"
          /\ UNCHANGED << error, raised_in >>
       \/ /\ \E n \in 0..(IF csv_rows = 0 THEN 0 ELSE csv_rows - 1) :
               SALES_TRANSACTIONS' = SALES_TRANSACTIONS \cup (1..n)
          /\ Raise("DatabaseError", "load_insert_except")
    /\ UNCHANGED << report, inputs, files, KPI_RESULTS, conn, txn,
                    validation, kpi, progress, rolled_back, exit_code >>

\* oracle_connector.py 94-95: cursor.executemany inserts the rows in order
\* into the open transaction and stops at the first row that fails.
LoadExecutemany ==
    /\ pc = "load_executemany"
    /\ \/ /\ pending_sales' = FileRows
          /\ pc' = "load_commit"
          /\ UNCHANGED << error, raised_in >>
       \/ /\ pending_sales' \in
               {1..n : n \in 0..(IF csv_rows = 0 THEN 0 ELSE csv_rows - 1)}
          /\ Raise("DatabaseError", "load_insert_except")
    /\ UNCHANGED << report, inputs, files, store, conn, pending_kpi, validation,
                    kpi, progress, rolled_back, exit_code >>

\* oracle_connector.py 96-97: connection.commit() of the batch.
LoadCommit ==
    /\ pc = "load_commit"
    /\ \/ /\ SALES_TRANSACTIONS' = SALES_TRANSACTIONS \cup pending_sales
          /\ load_commits' = load_commits + 1
          /\ pending_sales' = {}
          /\ pc' = "load_with_exit"
          /\ UNCHANGED << error, raised_in >>
       \/ /\ Raise("DatabaseError", "load_insert_except")
          /\ UNCHANGED << SALES_TRANSACTIONS, load_commits, pending_sales >>
    /\ UNCHANGED << report, inputs, csv_exists, csv_columns, csv_rows,
                    archived, KPI_RESULTS, conn, pending_kpi, validation, kpi,
                    progress, rolled_back, exit_code >>

\* An except clause of execute_batch_insert that raises again without the
\* rollback.
LoadInsertExceptNoRollback ==
    /\ pc = "load_insert_except"
    /\ pc' = "load_with_exit"
    /\ UNCHANGED << report, inputs, files, store, conn, txn, validation,
                    kpi, progress, error, raised_in, rolled_back,
                    exit_code >>

\* oracle_connector.py 98-101: the except clause of execute_batch_insert
\* rolls back and raises again.
LoadInsertExcept ==
    /\ pc = "load_insert_except"
    /\ Rollback
    /\ pc' = "load_with_exit"
    /\ UNCHANGED << report, inputs, files, store, conn, validation, kpi, progress,
                    error, raised_in, exit_code >>

\* csv_loader.py 61-96: leaving the with block of load_sales_data.
LoadWithExit ==
    /\ pc = "load_with_exit"
    /\ WithExit("load_archive", "main_except")
    /\ UNCHANGED << report, inputs, files, store, validation, kpi, progress, error,
                    raised_in, rolled_back, exit_code >>

\* csv_loader.py 100-107 and main.py 38-43: the file is renamed into the
\* archive, load_sales_data returns and main() goes on to step 2.
LoadArchive ==
    /\ pc = "load_archive"
    /\ \/ /\ csv_exists' = FALSE
          /\ archived' = archived + 1
          /\ completed' = completed \cup {"Loading"}
          /\ started' = Append(started, "Validating")
          /\ pc' = "validate_connect"
          /\ UNCHANGED << error, raised_in >>
       \/ /\ Raise("OSError", "main_except")
          /\ UNCHANGED << csv_exists, archived, progress >>
    /\ UNCHANGED << report, inputs, csv_columns, csv_rows, load_commits,
                    store, conn, txn,
                    validation, kpi, rolled_back, exit_code >>

----------------------------------------------------------------------------
(* main(): step 2, validate                                                *)

\* data_validator.py 29: with OracleConnector() as db.
ValidateConnect ==
    /\ pc = "validate_connect"
    /\ \/ /\ ConnectorInit
          /\ Connect
          /\ pc' = "validate_callproc"
          /\ UNCHANGED << error, raised_in >>
       \/ /\ ConnectorInit
          /\ Raise("DatabaseError", "main_except")
          /\ UNCHANGED conn
       \/ /\ ~ConnectorInit
          /\ Raise("FileNotFoundError", "main_except")
          /\ UNCHANGED conn
    /\ UNCHANGED << report, inputs, files, store, txn, validation, kpi, progress,
                    rolled_back, exit_code >>

\* A validation call that raises when the procedure reports FAIL.
ValidateCallprocStrict ==
    /\ pc = "validate_callproc"
    /\ \/ \E status \in Statuses \ {"FAIL"} :
            /\ validation_results' =
                 [validation_results EXCEPT ![Checks[check]] = status]
            /\ IF check < Len(Checks)
               THEN check' = check + 1 /\ pc' = pc
               ELSE check' = check /\ pc' = "validate_with_exit"
            /\ UNCHANGED << error, raised_in >>
       \/ /\ Raise("ValidationError", "validate_with_exit")
          /\ UNCHANGED << check, validation_results >>
       \/ /\ Raise("DatabaseError", "validate_with_exit")
          /\ UNCHANGED << check, validation_results >>
    /\ UNCHANGED << report, inputs, files, store, conn, txn, logged_results,
                    kpi, progress, rolled_back, exit_code >>

\* data_validator.py 32-79: one cursor.callproc of PKG_DATA_VALIDATION and
\* the entry of results it fills from the out parameters.  The status is an
\* output of the procedure; a failing call raises out of the with block.
ValidateCallproc ==
    /\ pc = "validate_callproc"
    /\ \/ \E status \in Statuses :
            /\ validation_results' =
                 [validation_results EXCEPT ![Checks[check]] = status]
            /\ IF check < Len(Checks)
               THEN check' = check + 1 /\ pc' = pc
               ELSE check' = check /\ pc' = "validate_with_exit"
            /\ UNCHANGED << error, raised_in >>
       \/ /\ Raise("DatabaseError", "validate_with_exit")
          /\ UNCHANGED << check, validation_results >>
    /\ UNCHANGED << report, inputs, files, store, conn, txn, logged_results, kpi,
                    progress, rolled_back, exit_code >>

\* A validate_all that raises when a check reports FAIL.
ValidateWithExitStrict ==
    /\ pc = "validate_with_exit"
    /\ Disconnect
    /\ IF error = "none"
          /\ \A c \in 1..Len(Checks) : validation_results[Checks[c]] # "FAIL"
       THEN /\ logged_results' = validation_results
            /\ completed' = completed \cup {"Validating"}
            /\ started' = Append(started, "Aggregating")
            /\ pc' = "kpi_connect"
            /\ UNCHANGED << error, raised_in >>
       ELSE /\ pc' = "main_except"
            /\ error' = IF error = "none" THEN "ValidationError" ELSE error
            /\ raised_in' = "Validating"
            /\ UNCHANGED << logged_results, progress >>
    /\ UNCHANGED << report, inputs, files, store, check, validation_results,
                    kpi, rolled_back, exit_code >>

\* data_validator.py 29-82 and main.py 45-49: leaving the with block;
\* validate_all returns results, main() logs them and goes on to step 3.
ValidateWithExit ==
    /\ pc = "validate_with_exit"
    /\ Disconnect
    /\ IF error = "none"
       THEN /\ logged_results' = validation_results
            /\ completed' = completed \cup {"Validating"}
            /\ started' = Append(started, "Aggregating")
            /\ pc' = "kpi_connect"
       ELSE /\ pc' = "main_except"
            /\ UNCHANGED << logged_results, progress >>
    /\ UNCHANGED << report, inputs, files, store, check, validation_results, kpi,
                    error, raised_in, rolled_back, exit_code >>

----------------------------------------------------------------------------
(* main(): step 3, calculate KPIs                                          *)

\* kpi_calculator.py 37: with OracleConnector() as db.
KpiConnect ==
    /\ pc = "kpi_connect"
    /\ \/ /\ ConnectorInit
          /\ Connect
          /\ pc' = "kpi_callproc"
          /\ UNCHANGED << error, raised_in >>
       \/ /\ ConnectorInit
          /\ Raise("DatabaseError", "main_except")
          /\ UNCHANGED conn
       \/ /\ ~ConnectorInit
          /\ Raise("FileNotFoundError", "main_except")
          /\ UNCHANGED conn
    /\ UNCHANGED << report, inputs, files, store, txn, validation, kpi, progress,
                    rolled_back, exit_code >>

\* The rows a procedure of PKG_KPI_CALCULATIONS leaves in the open
\* transaction: none over an empty transaction set, otherwise all of its
\* family when it returns and any part of it when it raises.
ProcWrites(name, ok) ==
    IF SALES_TRANSACTIONS = {} THEN {pending_kpi}
    ELSE IF ok THEN {pending_kpi \cup {name}}
    ELSE {pending_kpi, pending_kpi \cup {name}}

\* kpi_calculator.py 39-76: db.cursor.callproc of the family at hand.
KpiCallproc ==
    /\ pc = "kpi_callproc"
    /\ procs_called' = Append(procs_called, Families[family])
    /\ \/ /\ pending_kpi' \in ProcWrites(Families[family], TRUE)
          /\ pc' = "kpi_commit"
          /\ UNCHANGED << error, raised_in >>
       \/ /\ pending_kpi' \in ProcWrites(Families[family], FALSE)
          /\ Raise("DatabaseError", "kpi_except")
    /\ UNCHANGED << report, inputs, files, store, conn, pending_sales, validation,
                    family, progress, rolled_back, exit_code >>

\* A single commit after the last procedure instead of one per procedure.
KpiCommitAtEnd ==
    /\ pc = "kpi_commit"
    /\ \/ /\ IF family < Len(Families)
             THEN /\ family' = family + 1
                  /\ pc' = "kpi_callproc"
                  /\ UNCHANGED << KPI_RESULTS, pending_kpi >>
             ELSE /\ family' = family
                  /\ pc' = "kpi_with_exit"
                  /\ KPI_RESULTS' = KPI_RESULTS \cup pending_kpi
                  /\ pending_kpi' = {}
          /\ UNCHANGED << error, raised_in >>
       \/ /\ Raise("DatabaseError", "kpi_except")
          /\ UNCHANGED << KPI_RESULTS, pending_kpi, family >>
    /\ UNCHANGED << report, inputs, files, SALES_TRANSACTIONS, conn,
                    pending_sales, validation, procs_called, progress,
                    rolled_back, exit_code >>

\* kpi_calculator.py 45-79: db.connection.commit() after each procedure,
\* then the next procedure or the end of the try block.
KpiCommit ==
    /\ pc = "kpi_commit"
    /\ \/ /\ KPI_RESULTS' = KPI_RESULTS \cup pending_kpi
          /\ pending_kpi' = {}
          /\ IF family < Len(Families)
             THEN family' = family + 1 /\ pc' = "kpi_callproc"
             ELSE family' = family /\ pc' = "kpi_with_exit"
          /\ UNCHANGED << error, raised_in >>
       \/ /\ Raise("DatabaseError", "kpi_except")
          /\ UNCHANGED << KPI_RESULTS, pending_kpi, family >>
    /\ UNCHANGED << report, inputs, files, SALES_TRANSACTIONS, conn, pending_sales,
                    validation, procs_called, progress, rolled_back,
                    exit_code >>

\* An except clause that logs, rolls back and goes on with the next
\* procedure instead of raising again.
KpiExceptContinue ==
    /\ pc = "kpi_except"
    /\ Rollback
    /\ IF family < Len(Families)
       THEN family' = family + 1 /\ pc' = "kpi_callproc"
       ELSE family' = family /\ pc' = "kpi_with_exit"
    /\ error' = "none"
    /\ UNCHANGED << report, inputs, files, store, conn, validation,
                    procs_called, progress, raised_in, exit_code >>

\* kpi_calculator.py 81-84: the except clause rolls back and raises again.
KpiExcept ==
    /\ pc = "kpi_except"
    /\ Rollback
    /\ pc' = "kpi_with_exit"
    /\ UNCHANGED << report, inputs, files, store, conn, validation, kpi, progress,
                    error, raised_in, exit_code >>

\* kpi_calculator.py 37-84 and main.py 53-57: leaving the with block;
\* calculate_all_kpis returns and main() goes on to step 4.
KpiWithExit ==
    /\ pc = "kpi_with_exit"
    /\ Disconnect
    /\ IF error = "none"
       THEN /\ completed' = completed \cup {"Aggregating"}
            /\ started' = Append(started, "Reporting")
            /\ pc' = "rep_init"
       ELSE /\ pc' = "main_except"
            /\ UNCHANGED progress
    /\ UNCHANGED << report, inputs, files, store, validation, kpi, error,
                    raised_in, rolled_back, exit_code >>

----------------------------------------------------------------------------
(* main(): steps 4 and 5, charts and reports                               *)

\* The with OracleConnector() blocks of generate_all_charts and
\* generate_all_reports in the order they run.  init: a constructor
\* (ChartGenerator, ReportGenerator) runs before the block; reads: the rows
\* the first query selects; returns_if_empty: the function returns when the
\* query has no rows; renders: a file is written inside the block;
\* write_after: a file is opened for writing after the block.
Units ==
    << [fn |-> "plot_revenue_by_region", init |-> TRUE,
        reads |-> "CALC_REVENUE_BY_REGION", returns_if_empty |-> TRUE,
        renders |-> TRUE, write_after |-> FALSE,
        file |-> "revenue_by_region.png"],
       [fn |-> "plot_monthly_trend", init |-> FALSE,
        reads |-> "CALC_MONTHLY_REVENUE_TREND", returns_if_empty |-> TRUE,
        renders |-> TRUE, write_after |-> FALSE,
        file |-> "monthly_revenue_trend.png"],
       [fn |-> "plot_top_customers", init |-> FALSE,
        reads |-> "SALES_TRANSACTIONS", returns_if_empty |-> TRUE,
        renders |-> TRUE, write_after |-> FALSE,
        file |-> "top_customers.png"],
       [fn |-> "create_interactive_dashboard", init |-> FALSE,
        reads |-> "CALC_REVENUE_BY_REGION", returns_if_empty |-> FALSE,
        renders |-> TRUE, write_after |-> FALSE,
        file |-> "interactive_dashboard.html"],
       [fn |-> "generate_kpi_summary_csv", init |-> TRUE,
        reads |-> "KPI_RESULTS", returns_if_empty |-> TRUE,
        renders |-> TRUE, write_after |-> FALSE,
        file |-> "kpi_summary.csv"],
       [fn |-> "generate_text_report", init |-> FALSE,
        reads |-> "CALC_MONTHLY_REVENUE_TREND", returns_if_empty |-> FALSE,
        renders |-> FALSE, write_after |-> FALSE, file |-> ""],
       [fn |-> "detect_outliers", init |-> FALSE,
        reads |-> "CALC_REVENUE_BY_REGION", returns_if_empty |-> TRUE,
        renders |-> FALSE, write_after |-> FALSE, file |-> ""],
       [fn |-> "detect_trends", init |-> FALSE,
        reads |-> "CALC_MONTHLY_REVENUE_TREND", returns_if_empty |-> FALSE,
        renders |-> FALSE, write_after |-> FALSE, file |-> ""],
       [fn |-> "generate_summary_insights", init |-> FALSE,
        reads |-> "CALC_TOP_CUSTOMERS", returns_if_empty |-> FALSE,
        renders |-> FALSE, write_after |-> TRUE, file |-> "report.txt"],
       [fn |-> "detect_outliers", init |-> FALSE,
        reads |-> "CALC_REVENUE_BY_REGION", returns_if_empty |-> TRUE,
        renders |-> FALSE, write_after |-> FALSE, file |-> ""],
       [fn |-> "detect_trends", init |-> FALSE,
        reads |-> "CALC_MONTHLY_REVENUE_TREND", returns_if_empty |-> FALSE,
        renders |-> FALSE, write_after |-> FALSE, file |-> ""],
       [fn |-> "generate_summary_insights", init |-> FALSE,
        reads |-> "CALC_TOP_CUSTOMERS", returns_if_empty |-> FALSE,
        renders |-> FALSE, write_after |-> TRUE, file |-> "insights.txt"] >>

\* db.execute_query(query) returning at least one row.
HasRows(reads) ==
    CASE reads = "SALES_TRANSACTIONS" -> SALES_TRANSACTIONS # {}
      [] reads = "KPI_RESULTS" -> KPI_RESULTS # {}
      [] OTHER -> reads \in KPI_RESULTS

\* The with block after unit, or the end of generate_all_reports and the
\* completion log of main() (main.py 65-67).
Advance ==
    IF unit < Len(Units)
    THEN /\ unit' = unit + 1
         /\ pc' = IF Units[unit + 1].init THEN "rep_init" ELSE "rep_connect"
         /\ UNCHANGED completed
    ELSE /\ unit' = unit
         /\ completed' = completed \cup {"Reporting"}
         /\ pc' = "main_done"

\* ChartGenerator.__init__ (chart_generator.py 26-35) and
\* ReportGenerator.__init__ (report_generator.py 19-32): load_config and
\* mkdir of the output directories.
RepInit ==
    /\ pc = "rep_init"
    /\ \/ /\ config_exists
          /\ pc' = "rep_connect"
          /\ UNCHANGED << error, raised_in >>
       \/ /\ config_exists
          /\ Raise("OSError", "main_except")
       \/ /\ ~config_exists
          /\ Raise("FileNotFoundError", "main_except")
    /\ UNCHANGED << report, inputs, files, store, conn, txn, validation,
                    kpi, progress, rolled_back, exit_code >>

\* with OracleConnector() as db of a chart, report or insight function.
RepConnect ==
    /\ pc = "rep_connect"
    /\ \/ /\ ConnectorInit
          /\ Connect
          /\ pc' = "rep_query"
          /\ UNCHANGED << error, raised_in >>
       \/ /\ ConnectorInit
          /\ Raise("DatabaseError", "main_except")
          /\ UNCHANGED conn
       \/ /\ ~ConnectorInit
          /\ Raise("FileNotFoundError", "main_except")
          /\ UNCHANGED conn
    /\ UNCHANGED << report, inputs, files, store, txn, validation, kpi,
                    progress, rolled_back, exit_code >>

\* db.execute_query (oracle_connector.py 45-64) of the block: a SELECT; its
\* except clause logs and raises again.  A function that returns on an
\* empty result leaves the block without rendering.
RepQuery ==
    /\ pc = "rep_query"
    /\ \/ /\ pc' = IF /\ Units[unit].renders
                      /\ ~(Units[unit].returns_if_empty
                           /\ ~HasRows(Units[unit].reads))
                   THEN "rep_render" ELSE "rep_with_exit"
          /\ UNCHANGED << error, raised_in >>
       \/ Raise("DatabaseError", "rep_with_exit")
    /\ UNCHANGED << report, inputs, files, store, conn, txn, validation,
                    kpi, progress, rolled_back, exit_code >>

\* plt.savefig, fig.write_html or df.to_csv inside the with block.
RepRender ==
    /\ pc = "rep_render"
    /\ \/ /\ artifacts' = artifacts \cup {Units[unit].file}
          /\ pc' = "rep_with_exit"
          /\ UNCHANGED << error, raised_in >>
       \/ /\ Raise("OSError", "rep_with_exit")
          /\ UNCHANGED artifacts
    /\ UNCHANGED << unit, inputs, files, store, conn, txn, validation, kpi,
                    progress, rolled_back, exit_code >>

\* A with exit that deletes the KPI rows of the run when rendering failed.
RepWithExitUndo ==
    /\ pc = "rep_with_exit"
    /\ Disconnect
    /\ IF error # "none"
       THEN /\ pc' = "main_except"
            /\ KPI_RESULTS' = {}
            /\ UNCHANGED << unit, completed >>
       ELSE /\ KPI_RESULTS' = KPI_RESULTS
            /\ IF Units[unit].write_after
               THEN pc' = "rep_write" /\ UNCHANGED << unit, completed >>
               ELSE Advance
    /\ UNCHANGED << artifacts, started, inputs, files, SALES_TRANSACTIONS,
                    validation, kpi, error, raised_in, rolled_back,
                    exit_code >>

\* Leaving the with block of a chart, report or insight function.
RepWithExit ==
    /\ pc = "rep_with_exit"
    /\ Disconnect
    /\ IF error # "none"
       THEN pc' = "main_except" /\ UNCHANGED << unit, completed >>
       ELSE IF Units[unit].write_after
       THEN pc' = "rep_write" /\ UNCHANGED << unit, completed >>
       ELSE Advance
    /\ UNCHANGED << artifacts, started, inputs, files, store, validation,
                    kpi, error, raised_in, rolled_back, exit_code >>

\* report_generator.py 124-126 and 137-144: open(file, 'w') and write after
\* the insights are collected.
RepWrite ==
    /\ pc = "rep_write"
    /\ \/ /\ artifacts' = artifacts \cup {Units[unit].file}
          /\ Advance
          /\ UNCHANGED << error, raised_in >>
       \/ /\ Raise("OSError", "main_except")
          /\ UNCHANGED << unit, artifacts, completed >>
    /\ UNCHANGED << started, inputs, files, store, conn, txn, validation,
                    kpi, rolled_back, exit_code >>

----------------------------------------------------------------------------
(* main(): the two ways out                                                *)

\* main.py 65-67 and 74-75: main() returns and the interpreter exits.
MainReturn ==
    /\ pc = "main_done"
    /\ exit_code' = 0
    /\ pc' = "exit"
    /\ UNCHANGED << report, inputs, files, store, conn, txn, validation,
                    kpi, progress, error, raised_in, rolled_back >>

\* A handler that logs the failure and returns without sys.exit(1).
MainExceptLogOnly ==
    /\ pc = "main_except"
    /\ exit_code' = 0
    /\ pc' = "exit"
    /\ UNCHANGED << report, inputs, files, store, conn, txn, validation,
                    kpi, progress, error, raised_in, rolled_back >>

\* main.py 69-71: except Exception logs the failure and calls sys.exit(1).
MainExcept ==
    /\ pc = "main_except"
    /\ exit_code' = 1
    /\ pc' = "exit"
    /\ UNCHANGED << report, inputs, files, store, conn, txn, validation,
                    kpi, progress, error, raised_in, rolled_back >>

Next ==
    \/ MainStart
    \/ LoadInit \/ LoadExists \/ LoadReadCsv \/ LoadColumns \/ LoadClean
    \/ LoadConnect \/ LoadTuples \/ LoadExecutemany \/ LoadCommit
    \/ LoadInsertExcept \/ LoadWithExit \/ LoadArchive
    \/ ValidateConnect \/ ValidateCallproc \/ ValidateWithExit
    \/ KpiConnect \/ KpiCallproc \/ KpiCommit \/ KpiExcept \/ KpiWithExit
    \/ RepInit \/ RepConnect \/ RepQuery \/ RepRender \/ RepWithExit
    \/ RepWrite
    \/ MainReturn \/ MainExcept

Spec == Init /\ [][Next]_vars

----------------------------------------------------------------------------
(* Properties of the pipeline                                              *)

\* The stages in the order main() runs them.
StageOrder == << "Loading", "Validating", "Aggregating", "Reporting" >>

IsPrefix(s, t) ==
    /\ Len(s) <= Len(t)
    /\ \A i \in 1..Len(s) : s[i] = t[i]

Range(s) == {s[i] : i \in 1..Len(s)}

Ended == pc \in {"main_done", "main_except", "exit"}

\* C1: stages start in the order Loading (if entered), Validating,
\* Aggregating, Reporting; a stage starts only after the stage before it
\* has completed and while no exception is raised; Done is reached only
\* after Reporting has completed; once the run is Done or Failed no stage
\* is started.
C1_StageOrder ==
    /\ [](/\ \/ IsPrefix(started, StageOrder)
             \/ IsPrefix(started, Tail(StageOrder))
          /\ \A i \in 2..Len(started) : started[i - 1] \in completed
          /\ Stage \in {"Loading", "Validating", "Aggregating", "Reporting"}
               => started # << >> /\ started[Len(started)] = Stage
          /\ Stage = "Done" => "Reporting" \in completed)
    /\ [][/\ started' # started => error = "none" /\ error' = "none"
          /\ Stage \in {"Done", "Failed"} => started' = started]_vars

C1_Witness ==
    /\ pc = "exit"
    /\ exit_code = 0
    /\ started = StageOrder
    /\ completed = Range(StageOrder)

\* The families whose procedure has returned and whose commit has succeeded
\* when the procedure at position family is at hand.
EarlierFamilies(n) ==
    IF SALES_TRANSACTIONS = {} THEN {} ELSE {Families[i] : i \in 1..(n - 1)}

AggregatingFailed ==
    /\ raised_in = "Aggregating"
    /\ pc \in {"kpi_with_exit", "main_except", "exit"}

\* C2: when the computation of a KPI family fails, the writes of the
\* families completed before it stay committed, the writes of the failing
\* family are rolled back, and the rollback undoes no committed row.
C2_FamilyRollback ==
    /\ [](AggregatingFailed =>
            /\ KPI_RESULTS = EarlierFamilies(family)
            /\ pending_kpi = {})
    /\ [][pc = "kpi_except" =>
            /\ KPI_RESULTS' = KPI_RESULTS
            /\ SALES_TRANSACTIONS' = SALES_TRANSACTIONS
            /\ pending_kpi' = {}]_vars

C2_Witness ==
    /\ pc = "exit"
    /\ raised_in = "Aggregating"
    /\ family = 3
    /\ KPI_RESULTS = {Families[1], Families[2]}
    /\ rolled_back = 1

\* C3: when the computation of a KPI family fails, no later family is
\* invoked, the Reporting stage is not entered, and the run ends Failed.
C3_FailureAborts ==
    /\ [](raised_in = "Aggregating" =>
            /\ procs_called = SubSeq(Families, 1, Len(procs_called))
            /\ Len(procs_called) <= family
            /\ pc \notin {"kpi_callproc", "kpi_commit"}
            /\ "Reporting" \notin Range(started)
            /\ Stage \in {"Aggregating", "Failed"}
            /\ pc = "exit" => exit_code = 1)
    /\ [][raised_in = "Aggregating" => procs_called' = procs_called]_vars

C3_Witness ==
    /\ pc = "exit"
    /\ exit_code = 1
    /\ raised_in = "Aggregating"
    /\ procs_called = << Families[1], Families[2] >>
    /\ started = << "Validating", "Aggregating" >>

\* C4: whatever statuses the validation checks report, when the calls
\* return the run enters Aggregating with the statuses logged and no
\* exception raised, an exception of a later stage is the only way to
\* Failed, and the run enters Reporting when Aggregating completes.
C4_ValidationAdvisory ==
    /\ [](/\ "Validating" \in completed =>
               /\ logged_results = validation_results
               /\ \A c \in 1..Len(Checks) :
                    logged_results[Checks[c]] \in Statuses
               /\ raised_in # "Validating"
               /\ "Aggregating" \in Range(started)
          /\ "Aggregating" \in completed => "Reporting" \in Range(started))
    /\ [][/\ validation_results' # validation_results => error' = "none"
          /\ pc = "validate_with_exit" /\ error = "none" =>
               pc' = "kpi_connect" /\ error' = "none"]_vars

C4_Witness ==
    /\ pc = "exit"
    /\ exit_code = 0
    /\ logged_results.sales_data = "WARN"
    /\ logged_results.referential_integrity = "PASS"
    /\ logged_results.duplicates = "FAIL"
    /\ "Reporting" \in completed

\* The exceptions the steps of the run raise.
StoreErrors == {"DatabaseError"}
InputErrors == {"FileNotFoundError", "EmptyDataError", "ValueError"}
FileSystemErrors == {"OSError"}

\* C5 as stated: the run is Failed only when the Record Store failed, so a
\* run without a Record-Store failure ends Done.
C5_OnlyStoreFailureFails ==
    Stage = "Failed" => error \in StoreErrors

\* C5 as amended: the run is Failed only when a step of a stage raised: a
\* Record-Store failure, a missing configuration, a missing, empty or
\* malformed input file, or a file-system error while archiving or
\* writing charts and reports; a run in which no step raises ends Done.
C5_FailedOnlyOnRaise ==
    /\ Stage = "Failed" =>
         error \in StoreErrors \cup InputErrors \cup FileSystemErrors
    /\ error = "FileNotFoundError" =>
         ~config_exists \/ (raised_in = "Loading" /\ ~csv_exists)
    /\ error \in {"EmptyDataError", "ValueError"} => raised_in = "Loading"
    /\ error = "OSError" => raised_in \in {"Loading", "Reporting"}
    /\ Ended /\ error = "none" =>
         Stage = "Done" /\ completed = Range(started)

C5_Witness ==
    /\ pc = "exit"
    /\ Stage = "Failed"
    /\ error = "FileNotFoundError"
    /\ config_exists
    /\ open_connections = 0
    /\ connection = "None"

\* C6: a failure during Reporting leaves the committed KPI rows and the
\* committed transaction rows as the earlier stages left them.
C6_ReportingKeepsStore ==
    /\ [](Stage = "Reporting" \/ raised_in = "Reporting" =>
            /\ KPI_RESULTS = EarlierFamilies(Len(Families) + 1)
            /\ "Loading" \in completed => FileRows \subseteq SALES_TRANSACTIONS
            /\ rolled_back = 0)
    /\ [][Stage = "Reporting" \/ raised_in = "Reporting" =>
            /\ KPI_RESULTS' = KPI_RESULTS
            /\ SALES_TRANSACTIONS' = SALES_TRANSACTIONS]_vars

C6_Witness ==
    /\ pc = "exit"
    /\ raised_in = "Reporting"
    /\ error = "OSError"
    /\ KPI_RESULTS = Range(Families)
    /\ archived = 1
    /\ csv_rows > 0
    /\ FileRows \subseteq SALES_TRANSACTIONS

\* The header of the csv file lacks a column the loader input requires.
LacksRequiredColumn ==
    \E c \in {"transaction_date", "customer_id", "product_id", "quantity",
               "unit_price", "total_amount"} : c \notin csv_columns

\* C7: a file that lacks a required column is rejected with an error, no
\* row is inserted, no connection is opened and the file is not archived.
C7_MissingColumnRejected ==
    /\ [](LacksRequiredColumn =>
            /\ pc \notin {"load_clean", "load_connect", "load_tuples",
                          "load_executemany", "load_commit",
                          "load_insert_except", "load_with_exit",
                          "load_archive"}
            /\ Stage \in {"Idle", "Loading", "Failed"}
            /\ Ended => error \in InputErrors /\ raised_in = "Loading"
            /\ pc = "exit" => exit_code = 1
            /\ SALES_TRANSACTIONS \cap FileRows = {}
            /\ pending_sales = {}
            /\ open_connections = 0
            /\ archived = 0
            /\ csv_exists)
    /\ [][LacksRequiredColumn =>
            SALES_TRANSACTIONS' = SALES_TRANSACTIONS]_vars

C7_Witness ==
    /\ pc = "exit"
    /\ error = "ValueError"
    /\ "unit_price" \notin csv_columns
    /\ Cardinality(csv_columns) = 7
    /\ csv_rows > 0
    /\ csv_exists
    /\ archived = 0

LoadingFailed ==
    /\ raised_in = "Loading"
    /\ pc \in {"main_except", "exit"}

C9_ExitCode ==
    pc = "exit" =>
      /\ exit_code \in {0, 1}
      /\ exit_code # 0 <=> error # "none"
      /\ exit_code # 0 <=> raised_in \in Range(started)
      /\ exit_code = 0 <=> Range(started) \subseteq completed

C9_Witness ==
    /\ pc = "exit"
    /\ exit_code = 1
    /\ raised_in = "Validating"
    /\ validation_results.sales_data = "PASS"
    /\ validation_results.referential_integrity = "unset"

Unwinding ==
    {"load_insert_except", "load_with_exit", "kpi_except", "kpi_with_exit",
     "validate_with_exit", "rep_with_exit", "main_except", "exit"}

\* C10: an exception raised in a stage is never dropped: it leaves the
\* stage, which does not complete, and reaches the handler of main(); a
\* stage with uncommitted writes rolls them back before the exception
\* leaves its with block.
C10_NoSwallow ==
    /\ [](error # "none" =>
            /\ pc \in Unwinding
            /\ raised_in \in Range(started) \ completed
            /\ started[Len(started)] = raised_in
            /\ pc \in {"load_with_exit", "kpi_with_exit", "validate_with_exit",
                       "rep_with_exit", "main_except", "exit"} =>
                 pending_sales = {} /\ pending_kpi = {}
            /\ pc \in {"main_except", "exit"} => connection # "open")
    /\ [][error # "none" => error' = error /\ raised_in' = raised_in]_vars

C10_Witness ==
    /\ pc = "main_except"
    /\ raised_in = "Loading"
    /\ error = "DatabaseError"
    /\ rolled_back = 1
    /\ csv_rows = 2
    /\ started = << "Loading" >>

\* C11: the Loading stage is entered exactly when a csv file is supplied;
\* without one the run goes from Idle to Validating, inserts no row and
\* archives no file.
C11_LoadingIffSupplied ==
    /\ [](/\ started # << >> =>
               ("Loading" \in Range(started) <=> Len(argv) > 0)
          /\ Len(argv) = 0 =>
               /\ Stage # "Loading"
               /\ started # << >> => started[1] = "Validating"
               /\ pending_sales = {}
               /\ archived = 0)
    /\ [][Len(argv) = 0 =>
            /\ SALES_TRANSACTIONS' = SALES_TRANSACTIONS
            /\ csv_exists' = csv_exists]_vars

C11_Witness ==
    /\ pc = "exit"
    /\ exit_code = 0
    /\ argv = << >>
    /\ csv_exists
    /\ started = Tail(StageOrder)
    /\ archived = 0

-----------------------------------------------------------------------------
(* The analytics functions                                                 *)

\* Largest number of rows of the series an analytics function reads.
MaxPoints == 3

Dates == 1..3
Values == {0 - 2, 0, 1, 3}
ThresholdPercents == {0, 20, 50}
Periods == 1..3
Thresholds == {<< 1, 2 >>, << 1, 1 >>, << 5, 2 >>}

\* A row of KPI_RESULTS for one KPI name, or of the frame the dashboard
\* hands to its detector: a date and a value.
KpiRow == [KPI_DATE : Dates, KPI_VALUE : Values]

AllSeries == UNION {[1..n -> KpiRow] : n \in 0..MaxPoints}

\* What main() owns; no analytics function touches it.
pipeline ==
    << pc, argv, config_exists, runs, files, store, txn, conn, progress,
       validation, kpi, report, error, raised_in, rolled_back, exit_code >>

\* Series.sum() over the KPI_VALUE column.
RECURSIVE SumValues(_)
SumValues(s) ==
    IF s = << >> THEN 0 ELSE s[1].KPI_VALUE + SumValues(Tail(s))

\* The comparisons of detect_outliers are between fractions with the
\* denominator 100 * len(df); every quantity is kept multiplied by it.
Scale(s) == 100 * Len(s)

\* mean_value = df['KPI_VALUE'].mean(), times Scale.
mean_value(s) == 100 * SumValues(s)

\* threshold = mean_value * (threshold_percent / 100), times Scale.  It has
\* the sign of the mean.
percent_threshold(s, p) == SumValues(s) * p

\* The row filter: KPI_VALUE > mean_value + threshold or
\* KPI_VALUE < mean_value - threshold.
IsPercentOutlierHighOnly(s, p, i) ==
    Scale(s) * s[i].KPI_VALUE > mean_value(s) + percent_threshold(s, p)

IsPercentOutlier(s, p, i) ==
    \/ Scale(s) * s[i].KPI_VALUE > mean_value(s) + percent_threshold(s, p)
    \/ Scale(s) * s[i].KPI_VALUE < mean_value(s) - percent_threshold(s, p)

\* InsightGenerator.detect_outliers: no row gives [], otherwise the rows
\* that pass the filter.
detect_outliers(s, p) ==
    IF s = << >>
    THEN {}
    ELSE {i \in 1..Len(s) : IsPercentOutlier(s, p, i)}

InsightDetectOutliers ==
    /\ fn = "none"
    /\ \E p \in ThresholdPercents :
         /\ threshold_percent' = p
         /\ outlier_rows' = detect_outliers(series, p)
    /\ fn' = "InsightGenerator.detect_outliers"
    /\ UNCHANGED << pipeline, aggregation, loader, demo, series, periods, threshold,
                    outlier_buckets, results, df, trend >>

\* The dates that survive dropna and groupby(date_col): one bucket per date.
Buckets(s) == {s[i].KPI_DATE : i \in 1..Len(s)}

\* groupby(date_col)[value_col].sum(): the sum of the rows of one date.
RECURSIVE BucketSum(_, _)
BucketSum(s, d) ==
    IF s = << >>
    THEN 0
    ELSE (IF s[1].KPI_DATE = d THEN s[1].KPI_VALUE ELSE 0)
           + BucketSum(Tail(s), d)

\* revenue[value_col].sum() over the buckets D.
RECURSIVE RevenueSum(_, _)
RevenueSum(s, D) ==
    IF D = {}
    THEN 0
    ELSE LET d == CHOOSE x \in D : TRUE
         IN BucketSum(s, d) + RevenueSum(s, D \ {d})

\* revenue[value_col] - revenue[value_col].mean(), times len(revenue).
Deviation(s, d) ==
    Cardinality(Buckets(s)) * BucketSum(s, d) - RevenueSum(s, Buckets(s))

\* Sum over the buckets D of the squared deviations.  Over all buckets it
\* is std(ddof=0) squared, times len(revenue) cubed; std(ddof=1) divides
\* by one bucket less.
RECURSIVE SquaredSum(_, _)
SquaredSum(s, D) ==
    IF D = {}
    THEN 0
    ELSE LET d == CHOOSE x \in D : TRUE
         IN Deviation(s, d) * Deviation(s, d) + SquaredSum(s, D \ {d})

SquaredDeviations(s) == SquaredSum(s, Buckets(s))

\* IS_OUTLIER = Z_SCORE.abs() > threshold, both sides squared: Z_SCORE
\* squared is len(revenue) * Deviation^2 / SquaredDeviations.  A zero
\* std gives 0 / 0 = NaN, and NaN > threshold is False.
IS_OUTLIER_SAMPLE(s, t, d) ==
    /\ SquaredDeviations(s) # 0
    /\ (Cardinality(Buckets(s)) - 1) * Deviation(s, d) * Deviation(s, d)
         * t[2] * t[2]
       > t[1] * t[1] * SquaredDeviations(s)

IS_OUTLIER(s, t, d) ==
    /\ SquaredDeviations(s) # 0
    /\ Cardinality(Buckets(s)) * Deviation(s, d) * Deviation(s, d)
         * t[2] * t[2]
       > t[1] * t[1] * SquaredDeviations(s)

\* detect_outliers of streamlit_app.py: fewer than 3 buckets give the empty
\* frame, otherwise the buckets with IS_OUTLIER.
zscore_outliers(s, t) ==
    IF Cardinality(Buckets(s)) < 3
    THEN {}
    ELSE {d \in Buckets(s) : IS_OUTLIER(s, t, d)}

DashboardDetectOutliers ==
    /\ fn = "none"
    /\ \E t \in Thresholds :
         /\ threshold' = t
         /\ outlier_buckets' = zscore_outliers(series, t)
    /\ fn' = "streamlit_app.detect_outliers"
    /\ UNCHANGED << pipeline, aggregation, loader, demo, series, threshold_percent,
                    periods, outlier_rows, results, df, trend >>

Min(a, b) == IF a < b THEN a ELSE b

Abs(a) == IF a < 0 THEN 0 - a ELSE a

\* The orders in which the rows at the positions P of s can come out of a
\* sort by KPI_DATE; rows of equal date come in any order.
Orders(s, P, descending) ==
    {q \in [1..Cardinality(P) -> P] :
        /\ \A i, j \in DOMAIN q : q[i] = q[j] => i = j
        /\ \A i, j \in DOMAIN q :
             i < j => IF descending
                      THEN s[q[i]].KPI_DATE >= s[q[j]].KPI_DATE
                      ELSE s[q[i]].KPI_DATE <= s[q[j]].KPI_DATE}

\* ORDER BY KPI_DATE DESC FETCH FIRST :periods ROWS ONLY, as positions of
\* the series.
FetchFirstOldest(s, n) ==
    {SubSeq(q, 1, Min(n, Len(s))) : q \in Orders(s, DOMAIN s, FALSE)}

FetchFirst(s, n) ==
    {SubSeq(q, 1, Min(n, Len(s))) : q \in Orders(s, DOMAIN s, TRUE)}

\* df.sort_values('KPI_DATE') on the fetched rows.
sort_values(s, r) == Orders(s, {r[i] : i \in DOMAIN r}, FALSE)

\* values = df['KPI_VALUE'].values
column_values(s, d) == [i \in DOMAIN d |-> s[d[i]].KPI_VALUE]

\* a / b rounded to the nearest integer, ties to the even one, b # 0.
RoundHalfEven(a, b) ==
    LET n == IF b < 0 THEN 0 - a ELSE a
        d == Abs(b)
        q == n \div d
        r == n - q * d
    IN IF 2 * r < d THEN q
       ELSE IF 2 * r > d THEN q + 1
       ELSE IF q % 2 = 0 THEN q ELSE q + 1

\* f"{change_percent:.2f}" as a number of hundredths, where
\* change_percent = ((values[-1] - values[0]) / values[0]) * 100.
change_percent(first, last) == RoundHalfEven((last - first) * 10000, first)

Insufficient ==
    [kind |-> "insufficient", direction |-> "", percent |-> 0, finite |-> TRUE]

NoClearTrend ==
    [kind |-> "no_clear", direction |-> "", percent |-> 0, finite |-> TRUE]

\* What lines 100-107 of detect_trends can give for the column v.  The
\* division has no guard: with values[0] = 0 a float column gives inf or
\* nan, which the f-string prints, and an object column raises
\* ZeroDivisionError.
DirectionNotLess(v) ==
    IF v[Len(v)] >= v[1] THEN "increasing" ELSE "decreasing"

Direction(v) ==
    IF v[Len(v)] > v[1] THEN "increasing" ELSE "decreasing"

Classify(v) ==
    IF Len(v) >= 2
    THEN IF v[1] = 0
         THEN {[kind |-> "trend", direction |-> Direction(v),
                percent |-> 0, finite |-> FALSE],
               [kind |-> "ZeroDivisionError", direction |-> "",
                percent |-> 0, finite |-> TRUE]}
         ELSE {[kind |-> "trend", direction |-> Direction(v),
                percent |-> change_percent(v[1], v[Len(v)]),
                finite |-> TRUE]}
    ELSE {NoClearTrend}

\* Line 93: fewer rows than periods give the sentinel before any frame
\* is built.
EnoughRowsTwo(r, n) == Len(r) >= Min(n, 2)

EnoughRows(r, n) == Len(r) >= n

InsightDetectTrends ==
    /\ fn = "none"
    /\ \E n \in Periods :
         /\ periods' = n
         /\ \E r \in FetchFirst(series, n) :
              /\ results' = r
              /\ IF ~EnoughRows(r, n)
                 THEN /\ df' = << >>
                      /\ trend' = Insufficient
                 ELSE \E d \in sort_values(series, r) :
                        /\ df' = d
                        /\ trend' \in Classify(column_values(series, d))
    /\ fn' = "InsightGenerator.detect_trends"
    /\ UNCHANGED << pipeline, aggregation, loader, demo, series, threshold_percent,
                    threshold, outlier_rows, outlier_buckets >>

\* A call of an analytics function outside a run of main(): the pipeline
\* is at rest.
PipelineAtRest ==
    /\ pc = "start"
    /\ argv = << >>
    /\ config_exists = TRUE
    /\ csv_exists = FALSE
    /\ csv_columns = required_columns
    /\ csv_rows = 0
    /\ archived = 0
    /\ load_commits = 0
    /\ runs = 1
    /\ SALES_TRANSACTIONS = {}
    /\ KPI_RESULTS = {}
    /\ connection = "None"
    /\ open_connections = 0
    /\ pending_sales = {}
    /\ pending_kpi = {}
    /\ family = 1
    /\ check = 1
    /\ validation_results = NoResults
    /\ logged_results = NoResults
    /\ started = << >>
    /\ completed = {}
    /\ procs_called = << >>
    /\ unit = 1
    /\ artifacts = {}
    /\ error = "none"
    /\ raised_in = "none"
    /\ rolled_back = 0
    /\ exit_code = 0 - 1

InsightInit ==
    /\ series \in AllSeries
    /\ InsightIdle
    /\ sales_df = << >>
    /\ AggregationIdle
    /\ LoaderIdle
    /\ DemoIdle
    /\ PipelineAtRest

InsightNext ==
    \/ InsightDetectOutliers
    \/ DashboardDetectOutliers
    \/ InsightDetectTrends

InsightSpec == InsightInit /\ [][InsightNext]_vars

-----------------------------------------------------------------------------
(* Properties of the analytics functions                                   *)

\* C12: detect_outliers returns exactly the points of the series with
\* |value - mean| > mean * threshold_percent / 100, the mean taken over the
\* whole series, the tested point included.  Both sides are multiplied by
\* 100 * len(series).
C12_PercentOfMeanTest ==
    fn = "InsightGenerator.detect_outliers" =>
        outlier_rows =
            {i \in 1..Len(series) :
                Abs(Len(series) * series[i].KPI_VALUE - SumValues(series)) * 100
                  > SumValues(series) * threshold_percent}

C12_Witness ==
    /\ fn = "InsightGenerator.detect_outliers"
    /\ Len(series) = MaxPoints
    /\ threshold_percent > 0
    /\ SumValues(series) > 0
    /\ \E i \in outlier_rows :
         Len(series) * series[i].KPI_VALUE < SumValues(series)
    /\ \E i \in outlier_rows :
         Len(series) * series[i].KPI_VALUE > SumValues(series)
    /\ \E i \in 1..Len(series) : i \notin outlier_rows

\* All rows of the series carry one value.
ConstantSeries ==
    \A i, j \in 1..Len(series) : series[i].KPI_VALUE = series[j].KPI_VALUE

\* All per-date sums of the series are equal.
ConstantBuckets ==
    \A d, e \in Buckets(series) : BucketSum(series, d) = BucketSum(series, e)

\* C13: on a constant series, whatever the common value (zero and negative
\* values included), both detectors return the empty outlier set for every
\* positive threshold: the percent-of-mean detector on the rows, the
\* z-score detector on the per-date sums.
C13_ConstantSeriesNoOutliers ==
    /\ (/\ fn = "InsightGenerator.detect_outliers"
        /\ ConstantSeries
        /\ threshold_percent > 0) => outlier_rows = {}
    /\ (/\ fn = "streamlit_app.detect_outliers"
        /\ ConstantBuckets
        /\ threshold[1] > 0) => outlier_buckets = {}

\* C14: on a series of length 0 or 1 the percent-of-mean detector returns
\* the empty result, for every value of the single point and every
\* threshold_percent.
C14_ShortSeriesNoOutliers ==
    (fn = "InsightGenerator.detect_outliers" /\ Len(series) <= 1) =>
        outlier_rows = {}

\* Sum over the buckets D of the squared per-date sums.
RECURSIVE SumOfSquares(_, _)
SumOfSquares(s, D) ==
    IF D = {}
    THEN 0
    ELSE LET d == CHOOSE x \in D : TRUE
         IN BucketSum(s, d) * BucketSum(s, d) + SumOfSquares(s, D \ {d})

\* C15: the z-score detector returns the empty result on fewer than 3 date
\* buckets, and otherwise exactly the buckets with
\* |sum - mean| / population-stddev > threshold, mean and stddev over all
\* buckets.  With n buckets of total S and squares Q, the population
\* variance is (n * Q - S * S) / n^2 and |sum - mean| is |n * sum - S| / n,
\* so the test squared is (n * sum - S)^2 / (n * Q - S * S) > threshold^2.
C15_ZScoreTest ==
    fn = "streamlit_app.detect_outliers" =>
        LET B == Buckets(series)
            n == Cardinality(B)
            S == RevenueSum(series, B)
            Q == SumOfSquares(series, B)
            num == threshold[1]
            den == threshold[2]
        IN outlier_buckets =
             IF n < 3
             THEN {}
             ELSE {d \in B :
                     /\ n * Q - S * S > 0
                     /\ (n * BucketSum(series, d) - S)
                          * (n * BucketSum(series, d) - S) * den * den
                        > num * num * (n * Q - S * S)}

C15_Witness ==
    /\ fn = "streamlit_app.detect_outliers"
    /\ Cardinality(Buckets(series)) >= 3
    /\ threshold = << 1, 1 >>
    /\ outlier_buckets # {}
    /\ outlier_buckets # Buckets(series)

\* The first and the last value of the window detect_trends classified.
WindowFirst == series[df[1]].KPI_VALUE

WindowLast == series[df[Len(df)]].KPI_VALUE

\* C16: given at least `periods` points, periods >= 2, detect_trends takes
\* the `periods` most recent points of the series, orders them ascending by
\* date, and reports "increasing" if the last value is strictly greater than
\* the first and "decreasing" otherwise, with the percent change
\* (last - first) / first * 100, which it prints to two decimals.  The
\* window whose first value is 0 has no such quotient and is left to C18.
C16_TrendOfRecentWindow ==
    (/\ fn = "InsightGenerator.detect_trends"
     /\ periods >= 2
     /\ Len(series) >= periods) =>
        /\ Len(results) = periods
        /\ \A i, j \in DOMAIN results : results[i] = results[j] => i = j
        /\ \A i \in Range(results) :
             \A j \in DOMAIN series \ Range(results) :
                series[j].KPI_DATE <= series[i].KPI_DATE
        /\ Len(df) = periods
        /\ Range(df) = Range(results)
        /\ \A i, j \in DOMAIN df :
             i < j => series[df[i]].KPI_DATE <= series[df[j]].KPI_DATE
        /\ WindowFirst # 0 =>
             /\ trend.kind = "trend"
             /\ trend.finite
             /\ trend.direction =
                  IF WindowLast > WindowFirst
                  THEN "increasing"
                  ELSE "decreasing"
             /\ 2 * Abs(trend.percent * WindowFirst
                          - (WindowLast - WindowFirst) * 10000)
                  <= Abs(WindowFirst)

C16_Witness ==
    /\ fn = "InsightGenerator.detect_trends"
    /\ periods = 2
    /\ Len(series) = MaxPoints
    /\ series[1].KPI_DATE > series[2].KPI_DATE
    /\ trend.kind = "trend"
    /\ trend.direction = "decreasing"
    /\ trend.percent = 0 - 6667

\* C17: with fewer than `periods` points available detect_trends returns
\* the insufficient-data sentinel, and a direction or a percent change is
\* never computed on a window shorter than requested.
C17_InsufficientData ==
    fn = "InsightGenerator.detect_trends" =>
        /\ Len(series) < periods =>
             /\ trend.kind = "insufficient"
             /\ trend.direction = ""
             /\ df = << >>
        /\ trend.kind \in {"trend", "ZeroDivisionError"} =>
             Len(df) = periods

C17_Witness ==
    /\ fn = "InsightGenerator.detect_trends"
    /\ periods = 3
    /\ Len(series) = 2
    /\ series[1].KPI_VALUE # 0
    /\ series[2].KPI_VALUE # 0
    /\ trend.kind = "insufficient"

\* C18: when the first (oldest) value of the trend window is 0,
\* detect_trends does not divide: it reports an indeterminate-trend result,
\* and neither raises nor returns a direction with a percent change.
C18_ZeroFirstIndeterminate ==
    (/\ fn = "InsightGenerator.detect_trends"
     /\ Len(df) >= 2
     /\ WindowFirst = 0) =>
        /\ trend.kind = "indeterminate"
        /\ trend.direction = ""

\* C19 as stated: when the last value of the window equals the first, both
\* non-zero, the classifier reports "increasing" with a percent change of 0.
C19_EqualIsIncreasing ==
    (/\ fn = "InsightGenerator.detect_trends"
     /\ Len(df) >= 2
     /\ WindowFirst # 0
     /\ WindowLast = WindowFirst) =>
        /\ trend.kind = "trend"
        /\ trend.direction = "increasing"
        /\ trend.percent = 0

\* C19, amended: when the last value of the window equals the first, both
\* non-zero, the classifier reports "decreasing" with a percent change of 0.
C19_EqualIsDecreasing ==
    (/\ fn = "InsightGenerator.detect_trends"
     /\ Len(df) >= 2
     /\ WindowFirst # 0
     /\ WindowLast = WindowFirst) =>
        /\ trend.kind = "trend"
        /\ trend.finite
        /\ trend.direction = "decreasing"
        /\ trend.percent = 0

C19_Witness ==
    /\ fn = "InsightGenerator.detect_trends"
    /\ periods = 2
    /\ Len(df) = 2
    /\ WindowFirst = 3
    /\ WindowLast = 3
    /\ trend.direction = "decreasing"
    /\ trend.percent = 0

-----------------------------------------------------------------------------
(* Aggregation over transactions                                           *)

\* Largest number of transactions in the frame an aggregation reads.
MaxTxns == 2

\* Days 1 and 2 lie in month 1 and day 3 in month 3; month 2 has no day.
Days == 1..3
Month(d) == IF d = 3 THEN 3 ELSE 1
Customers == 1..2
Products == 1..1
Regions == 1..2
Amounts == 1..3

\* A REGION_ID that is None or NaN.
NULL == 0 - 1

\* datetime.now().date(): a day after every transaction.
Today == Cardinality(Days) + 1

Transaction ==
    [TRANSACTION_DATE : Days, CUSTOMER_ID : Customers,
     PRODUCT_ID : Products, REGION_ID : Regions \cup {NULL},
     TOTAL_AMOUNT : Amounts]

AllFrames == UNION {[1..n -> Transaction] : n \in 0..MaxTxns}

\* ["TOTAL_AMOUNT"].sum() over the rows at the positions I.
RECURSIVE SumAmount(_, _)
SumAmount(f, I) ==
    IF I = {}
    THEN 0
    ELSE LET i == CHOOSE x \in I : TRUE
         IN f[i].TOTAL_AMOUNT + SumAmount(f, I \ {i})

\* The groups of a groupby, as sets of positions.
InRegionDay(f, r, d) ==
    {i \in DOMAIN f : f[i].REGION_ID = r /\ f[i].TRANSACTION_DATE = d}

InRegion(f, r) == {i \in DOMAIN f : f[i].REGION_ID = r}

InDay(f, d) == {i \in DOMAIN f : f[i].TRANSACTION_DATE = d}

InMonth(f, m) == {i \in DOMAIN f : Month(f[i].TRANSACTION_DATE) = m}

OfCustomer(f, c) == {i \in DOMAIN f : f[i].CUSTOMER_ID = c}

\* The keys of a groupby come out sorted: integers ascending, pairs
\* lexicographically.
RECURSIVE Sorted(_)
Sorted(S) ==
    IF S = {}
    THEN << >>
    ELSE LET m == CHOOSE x \in S : \A y \in S : x <= y
         IN << m >> \o Sorted(S \ {m})

RECURSIVE SortedPairs(_)
SortedPairs(S) ==
    IF S = {}
    THEN << >>
    ELSE LET m == CHOOSE x \in S :
                    \A y \in S : x[1] < y[1] \/ (x[1] = y[1] /\ x[2] <= y[2])
         IN << m >> \o SortedPairs(S \ {m})

\* A row appended to kpi_results.  KPI_VALUE is a sum; for the mean of
\* AVG_TRANSACTION_VALUE the value is KPI_VALUE / DIVISOR.
KpiResult(name, value, divisor, date, region) ==
    [KPI_NAME |-> name, KPI_VALUE |-> value, DIVISOR |-> divisor,
     KPI_DATE |-> date, REGION_ID |-> region]

\* groupby(['REGION_ID', date]) with the default dropna=True: a row whose
\* REGION_ID is null is in no group.
RegionDayKeysWithNull(f) ==
    {<< f[i].REGION_ID, f[i].TRANSACTION_DATE >> : i \in DOMAIN f}

RegionDayKeys(f) ==
    {<< f[i].REGION_ID, f[i].TRANSACTION_DATE >> :
        i \in {j \in DOMAIN f : f[j].REGION_ID # NULL}}

\* Lines 93-102: one REVENUE_BY_REGION row per (region, day) group.
RevenueByRegionRows(f) ==
    LET keys == SortedPairs(RegionDayKeys(f))
    IN [k \in DOMAIN keys |->
          KpiResult("REVENUE_BY_REGION",
                    SumAmount(f, InRegionDay(f, keys[k][1], keys[k][2])),
                    1, keys[k][2], keys[k][1])]

\* Lines 104-113: one MONTHLY_REVENUE_TREND row per month with a row.
MonthlyRevenueRows(f) ==
    LET keys == Sorted({Month(f[i].TRANSACTION_DATE) : i \in DOMAIN f})
    IN [k \in DOMAIN keys |->
          KpiResult("MONTHLY_REVENUE_TREND",
                    SumAmount(f, InMonth(f, keys[k])), 1, keys[k], NULL)]

\* nlargest: the customers by summed revenue, largest first; equal sums
\* keep the order of the groupby, ascending CUSTOMER_ID.
RECURSIVE Largest(_, _)
Largest(f, C) ==
    IF C = {}
    THEN << >>
    ELSE LET Revenue(c) == SumAmount(f, OfCustomer(f, c))
             m == CHOOSE c \in C :
                    \A e \in C :
                       \/ Revenue(c) > Revenue(e)
                       \/ Revenue(c) = Revenue(e) /\ c <= e
         IN << m >> \o Largest(f, C \ {m})

\* The 10 of nlargest(10).
TopCustomers == 10

\* Lines 115-124: one TOP_CUSTOMERS row per customer among the largest 10,
\* dated today; the row does not carry the customer.
TopCustomerRows(f) ==
    LET ranked == Largest(f, {f[i].CUSTOMER_ID : i \in DOMAIN f})
        top == SubSeq(ranked, 1, Min(TopCustomers, Len(ranked)))
    IN [k \in DOMAIN top |->
          KpiResult("TOP_CUSTOMERS", SumAmount(f, OfCustomer(f, top[k])),
                    1, Today, NULL)]

DailyAverageRowsPerTransaction(f) ==
    [k \in DOMAIN f |->
       KpiResult("AVG_TRANSACTION_VALUE", f[k].TOTAL_AMOUNT, 1,
                 f[k].TRANSACTION_DATE, NULL)]

\* Lines 126-135: one AVG_TRANSACTION_VALUE row per day with a row.
DailyAverageRows(f) ==
    LET keys == Sorted({f[i].TRANSACTION_DATE : i \in DOMAIN f})
    IN [k \in DOMAIN keys |->
          KpiResult("AVG_TRANSACTION_VALUE",
                    SumAmount(f, InDay(f, keys[k])),
                    Cardinality(InDay(f, keys[k])), keys[k], NULL)]

\* DemoDataGenerator.generate_kpi_results.  A frame without rows is either
\* a frame without columns (pd.DataFrame([]) of generate_sales_data), on
\* which sales_df['TRANSACTION_DATE'] raises KeyError, or a frame with
\* typed columns, on which every groupby is empty.
GenerateKpiResults ==
    /\ agg_fn = "none"
    /\ agg_fn' = "generate_kpi_results"
    /\ \/ /\ agg_error' = "none"
          /\ kpi_results' = RevenueByRegionRows(sales_df)
                              \o MonthlyRevenueRows(sales_df)
                              \o TopCustomerRows(sales_df)
                              \o DailyAverageRows(sales_df)
       \/ /\ sales_df = << >>
          /\ agg_error' = "KeyError"
          /\ kpi_results' = << >>
    /\ UNCHANGED << pipeline, insight, loader, demo, sales_df, total_revenue, rbr,
                    revenue, pp, top_n, top_cust, monthly >>

\* groupby("REGION_ID", dropna=False): the null REGION_ID is a group of
\* its own, after the others.
RegionKeys(f) ==
    LET present == {f[i].REGION_ID : i \in DOMAIN f}
    IN Sorted(present \ {NULL})
         \o (IF NULL \in present THEN << NULL >> ELSE << >>)

\* revenue_by_region of streamlit_app.py.
revenue_by_region(f) ==
    LET keys == RegionKeys(f)
    IN [k \in DOMAIN keys |->
          [REGION_ID |-> keys[k],
           REVENUE |-> SumAmount(f, InRegion(f, keys[k]))]]

\* tmp.groupby(date_col)[value_col].sum() of the dashboard's detector, on
\* the sales schema: one row per day with a transaction.
daily_revenue(f) ==
    LET keys == Sorted({f[i].TRANSACTION_DATE : i \in DOMAIN f})
    IN [k \in DOMAIN keys |->
          [TRANSACTION_DATE |-> keys[k],
           TOTAL_AMOUNT |-> SumAmount(f, InDay(f, keys[k]))]]

OfProduct(f, q) == {i \in DOMAIN f : f[i].PRODUCT_ID = q}

\* The orders in which sort_values("REVENUE", ascending=False) can leave
\* the rows of the sequence rows: largest first, and rows of equal REVENUE
\* in any order, the default sort kind not being stable.
ByRevenueDescending(rows) ==
    {[k \in DOMAIN rows |-> rows[q[k]]] :
        q \in {x \in [DOMAIN rows -> DOMAIN rows] :
                 /\ \A i, j \in DOMAIN rows : x[i] = x[j] => i = j
                 /\ \A i, j \in DOMAIN rows :
                      i < j => rows[x[i]].REVENUE >= rows[x[j]].REVENUE}}

\* groupby("CUSTOMER_ID")["TOTAL_AMOUNT"].sum().reset_index(), renamed: one
\* row per customer, ascending CUSTOMER_ID.
customer_revenue(f) ==
    LET keys == Sorted({f[i].CUSTOMER_ID : i \in DOMAIN f})
    IN [k \in DOMAIN keys |->
          [CUSTOMER_ID |-> keys[k],
           REVENUE |-> SumAmount(f, OfCustomer(f, keys[k]))]]

\* top_customers of streamlit_app.py, n >= 0: what it can return.
top_customers(f, n) ==
    {SubSeq(rows, 1, Min(n, Len(rows))) :
        rows \in ByRevenueDescending(customer_revenue(f))}

\* product_performance of streamlit_app.py: what it can return.
product_performance(f) ==
    LET keys == Sorted({f[i].PRODUCT_ID : i \in DOMAIN f})
    IN ByRevenueDescending(
         [k \in DOMAIN keys |->
            [PRODUCT_ID |-> keys[k],
             REVENUE |-> SumAmount(f, OfProduct(f, keys[k]))]])

\* resample("MS"): one bin per calendar month from the first month with a
\* row to the last, the months without a row included.
MonthBins(f) ==
    LET months == {Month(f[i].TRANSACTION_DATE) : i \in DOMAIN f}
    IN IF months = {}
       THEN << >>
       ELSE LET first == CHOOSE m \in months : \A x \in months : m <= x
                last == CHOOSE m \in months : \A x \in months : m >= x
            IN [k \in 1..(last - first + 1) |-> first + k - 1]

\* monthly_trend of streamlit_app.py: the sum of every bin, 0 for a month
\* without a row, and PCT_CHANGE = pct_change() * 100 as the fraction
\* << numerator, denominator >>; the first row has none (NaN), and a zero
\* denominator stands for inf or NaN.
monthly_trend(f) ==
    LET bins == MonthBins(f)
        REVENUE(k) == SumAmount(f, InMonth(f, bins[k]))
    IN [k \in DOMAIN bins |->
          [TRANSACTION_DATE |-> bins[k],
           REVENUE |-> REVENUE(k),
           PCT_CHANGE |-> IF k = 1
                          THEN << 0, 0 >>
                          ELSE << (REVENUE(k) - REVENUE(k - 1)) * 100,
                                  REVENUE(k - 1) >>]]

\* The dashboard script on the sales schema, which stops before any chart
\* on an empty frame: the KPI cards, the region, product, customer and
\* monthly charts and the daily aggregate of the outlier section.
DashboardAggregates ==
    /\ agg_fn = "none"
    /\ sales_df # << >>
    /\ agg_fn' = "streamlit_app"
    /\ total_revenue' = SumAmount(sales_df, DOMAIN sales_df)
    /\ rbr' = revenue_by_region(sales_df)
    /\ pp' \in product_performance(sales_df)
    /\ top_n' = 10
    /\ top_cust' \in top_customers(sales_df, 10)
    /\ monthly' = monthly_trend(sales_df)
    /\ revenue' = daily_revenue(sales_df)
    /\ UNCHANGED << pipeline, insight, loader, demo, sales_df, kpi_results, agg_error >>

\* top_customers applied to a frame with any n.
TopCustomersCall ==
    /\ agg_fn = "none"
    /\ agg_fn' = "top_customers"
    /\ \E n \in 0..2 :
         /\ top_n' = n
         /\ top_cust' \in top_customers(sales_df, n)
    /\ UNCHANGED << pipeline, insight, loader, demo, sales_df, kpi_results, agg_error,
                    total_revenue, rbr, revenue, pp, monthly >>

\* An aggregation applied to a frame of transactions outside a run of
\* main(): the pipeline is at rest.
AggInit ==
    /\ sales_df \in AllFrames
    /\ AggregationIdle
    /\ series = << >>
    /\ InsightIdle
    /\ LoaderIdle
    /\ DemoIdle
    /\ PipelineAtRest

AggNext ==
    \/ GenerateKpiResults
    \/ DashboardAggregates
    \/ TopCustomersCall

AggSpec == AggInit /\ [][AggNext]_vars

-----------------------------------------------------------------------------
(* Properties of the aggregations                                          *)

RECURSIVE SumSeq(_)
SumSeq(q) == IF q = << >> THEN 0 ELSE q[1] + SumSeq(Tail(q))

\* The values of the REVENUE_BY_REGION rows of kpi_results, in order.
RegionRevenueValues ==
    LET rows == SelectSeq(kpi_results,
                          LAMBDA r : r.KPI_NAME = "REVENUE_BY_REGION")
    IN [k \in DOMAIN rows |-> rows[k].KPI_VALUE]

GrandTotal == SumAmount(sales_df, DOMAIN sales_df)

\* The total over the transactions that have a region.
RegionTotal ==
    SumAmount(sales_df, {i \in DOMAIN sales_df : sales_df[i].REGION_ID # NULL})

\* C20 as stated: for every transaction set the per-region revenue values,
\* the per-day revenue values and total_amount over all transactions have
\* the same sum.
C20_PartitionTotals ==
    /\ agg_fn = "streamlit_app" =>
         /\ SumSeq([k \in DOMAIN rbr |-> rbr[k].REVENUE]) = GrandTotal
         /\ SumSeq([k \in DOMAIN revenue |-> revenue[k].TOTAL_AMOUNT])
              = GrandTotal
         /\ total_revenue = GrandTotal
    /\ (agg_fn = "generate_kpi_results" /\ agg_error = "none") =>
         SumSeq(RegionRevenueValues) = GrandTotal

\* C20, amended: the per-day revenue values sum to the grand total; the
\* per-region revenue values sum to the grand total where the null region
\* is a bucket of its own (the dashboard), and to the total over the
\* transactions with a region where null-region transactions are left out
\* of the region grouping (generate_kpi_results).
C20_PartitionTotalsByRegion ==
    /\ agg_fn = "streamlit_app" =>
         /\ SumSeq([k \in DOMAIN rbr |-> rbr[k].REVENUE]) = GrandTotal
         /\ SumSeq([k \in DOMAIN revenue |-> revenue[k].TOTAL_AMOUNT])
              = GrandTotal
         /\ total_revenue = GrandTotal
    /\ (agg_fn = "generate_kpi_results" /\ agg_error = "none") =>
         SumSeq(RegionRevenueValues) = RegionTotal

C20_Witness ==
    /\ agg_fn = "generate_kpi_results"
    /\ agg_error = "none"
    /\ Len(sales_df) = MaxTxns
    /\ \E i \in DOMAIN sales_df : sales_df[i].REGION_ID = NULL
    /\ \E i \in DOMAIN sales_df : sales_df[i].REGION_ID # NULL
    /\ SumSeq(RegionRevenueValues) > 0
    /\ SumSeq(RegionRevenueValues) < GrandTotal

\* The rows of one KPI family in kpi_results, in order.
KpiRows(name) == SelectSeq(kpi_results, LAMBDA r : r.KPI_NAME = name)

\* The sum of the KPI_VALUE column of one KPI family.
KpiSum(name) ==
    SumSeq([k \in DOMAIN KpiRows(name) |-> KpiRows(name)[k].KPI_VALUE])

\* C21: transactions whose region_id is null contribute to no
\* revenue-by-region bucket, and no bucket is produced for the null region,
\* but they are counted in the monthly trend, top-customer,
\* product-performance and average-transaction-value aggregates.
C21_NullRegionInNoBucket ==
    /\ agg_fn = "streamlit_app" =>
         /\ \A k \in DOMAIN rbr : rbr[k].REGION_ID # NULL
         /\ SumSeq([k \in DOMAIN rbr |-> rbr[k].REVENUE]) = RegionTotal
         /\ SumSeq([k \in DOMAIN monthly |-> monthly[k].REVENUE]) = GrandTotal
         /\ SumSeq([k \in DOMAIN top_cust |-> top_cust[k].REVENUE])
              = GrandTotal
         /\ SumSeq([k \in DOMAIN pp |-> pp[k].REVENUE]) = GrandTotal
    /\ (agg_fn = "generate_kpi_results" /\ agg_error = "none") =>
         /\ \A k \in DOMAIN kpi_results :
              kpi_results[k].KPI_NAME = "REVENUE_BY_REGION" =>
                 kpi_results[k].REGION_ID # NULL
         /\ KpiSum("REVENUE_BY_REGION") = RegionTotal
         /\ KpiSum("MONTHLY_REVENUE_TREND") = GrandTotal
         /\ KpiSum("TOP_CUSTOMERS") = GrandTotal
         /\ KpiSum("AVG_TRANSACTION_VALUE") = GrandTotal
         /\ SumSeq([k \in DOMAIN KpiRows("AVG_TRANSACTION_VALUE") |->
                      KpiRows("AVG_TRANSACTION_VALUE")[k].DIVISOR])
              = Len(sales_df)

\* The customers with a transaction, and the summed revenue of one.
DistinctCustomers == {sales_df[i].CUSTOMER_ID : i \in DOMAIN sales_df}

CustomerTotal(c) == SumAmount(sales_df, OfCustomer(sales_df, c))

\* Customer c comes before customer e: larger summed revenue, or equal
\* summed revenue and smaller customer id.
RankedBefore(c, e) ==
    \/ CustomerTotal(c) > CustomerTotal(e)
    \/ CustomerTotal(c) = CustomerTotal(e) /\ c < e

CountRows(rows, Test(_)) == Len(SelectSeq(rows, Test))

\* C23: for every non-empty transaction set the aggregator emits exactly
\* one REVENUE_BY_REGION row for each (region, day) pair with a transaction
\* and exactly one AVG_TRANSACTION_VALUE row for each day with a
\* transaction, and no row of either kind for a pair or a day without one.
\* A null region_id is no region.
C23_OneRowPerBucket ==
    (agg_fn = "generate_kpi_results" /\ sales_df # << >>) =>
        /\ agg_error = "none"
        /\ \A k \in DOMAIN KpiRows("REVENUE_BY_REGION") :
             /\ KpiRows("REVENUE_BY_REGION")[k].REGION_ID \in Regions
             /\ KpiRows("REVENUE_BY_REGION")[k].KPI_DATE \in Days
        /\ \A r \in Regions, d \in Days :
             CountRows(KpiRows("REVENUE_BY_REGION"),
                       LAMBDA x : x.REGION_ID = r /\ x.KPI_DATE = d)
               = IF \E i \in DOMAIN sales_df :
                       /\ sales_df[i].REGION_ID = r
                       /\ sales_df[i].TRANSACTION_DATE = d
                 THEN 1
                 ELSE 0
        /\ \A k \in DOMAIN KpiRows("AVG_TRANSACTION_VALUE") :
             KpiRows("AVG_TRANSACTION_VALUE")[k].KPI_DATE \in Days
        /\ \A d \in Days :
             CountRows(KpiRows("AVG_TRANSACTION_VALUE"),
                       LAMBDA x : x.KPI_DATE = d)
               = IF \E i \in DOMAIN sales_df :
                       sales_df[i].TRANSACTION_DATE = d
                 THEN 1
                 ELSE 0

C23_Witness ==
    /\ agg_fn = "generate_kpi_results"
    /\ Len(sales_df) = MaxTxns
    /\ \A i \in DOMAIN sales_df :
         /\ sales_df[i].REGION_ID = 2
         /\ sales_df[i].TRANSACTION_DATE = 2
    /\ Len(KpiRows("REVENUE_BY_REGION")) = 1
    /\ Len(KpiRows("AVG_TRANSACTION_VALUE")) = 1
    /\ KpiRows("AVG_TRANSACTION_VALUE")[1].DIVISOR = MaxTxns

\* The calendar months from the first day to the last.
CalendarMonths ==
    LET months == {Month(d) : d \in Days}
        first == CHOOSE m \in months : \A x \in months : m <= x
        last == CHOOSE m \in months : \A x \in months : m >= x
    IN first..last

ActiveMonth(m) ==
    \E i \in DOMAIN sales_df : Month(sales_df[i].TRANSACTION_DATE) = m

\* C24: the monthly revenue trend has exactly one row for each calendar
\* month with a transaction, holding the sum of total_amount of that month,
\* and no row for a calendar month without a transaction, the months
\* between two active months included.
C24_OneRowPerActiveMonth ==
    /\ agg_fn = "streamlit_app" =>
         /\ \A k \in DOMAIN monthly :
              /\ ActiveMonth(monthly[k].TRANSACTION_DATE)
              /\ monthly[k].REVENUE
                   = SumAmount(sales_df,
                               InMonth(sales_df, monthly[k].TRANSACTION_DATE))
         /\ \A m \in CalendarMonths :
              ActiveMonth(m) =>
                 CountRows(monthly, LAMBDA x : x.TRANSACTION_DATE = m) = 1
    /\ (agg_fn = "generate_kpi_results" /\ agg_error = "none") =>
         LET rows == KpiRows("MONTHLY_REVENUE_TREND")
         IN /\ \A k \in DOMAIN rows :
                 /\ ActiveMonth(rows[k].KPI_DATE)
                 /\ rows[k].KPI_VALUE
                      = SumAmount(sales_df, InMonth(sales_df, rows[k].KPI_DATE))
            /\ \A m \in CalendarMonths :
                 ActiveMonth(m) =>
                    CountRows(rows, LAMBDA x : x.KPI_DATE = m) = 1

\* C25: given an empty set of transactions the aggregator produces zero
\* KPI rows and reports no error.
C25_EmptyInputNoRows ==
    (agg_fn = "generate_kpi_results" /\ sales_df = << >>) =>
        /\ kpi_results = << >>
        /\ agg_error = "none"

-----------------------------------------------------------------------------
(* Repeated runs of main.py on the same command line                       *)

\* Largest number of runs of main.py in a row.
MaxRuns == 2

\* main.py 74-75: the script is started again with the same arguments once
\* the run before has exited.  The files, the archive, the artifacts and the
\* committed rows are what the run before left; everything a run holds in
\* memory starts afresh.
Rerun ==
    /\ pc = "exit"
    /\ runs < MaxRuns
    /\ runs' = runs + 1
    /\ pc' = "start"
    /\ connection' = "None"
    /\ open_connections' = 0
    /\ pending_sales' = {}
    /\ pending_kpi' = {}
    /\ family' = 1
    /\ check' = 1
    /\ validation_results' = NoResults
    /\ logged_results' = NoResults
    /\ started' = << >>
    /\ completed' = {}
    /\ procs_called' = << >>
    /\ unit' = 1
    /\ error' = "none"
    /\ raised_in' = "none"
    /\ rolled_back' = 0
    /\ exit_code' = 0 - 1
    /\ UNCHANGED << argv, config_exists, files, store, artifacts, insight,
                    aggregation, loader, demo >>

RerunNext == Next \/ Rerun

RerunSpec == Init /\ [][RerunNext]_vars

----------------------------------------------------------------------------
(* The row preparation of load_sales_data                                  *)

\* A blank cell of the csv file as pd.read_csv reads it.
NaN == 0 - 2

\* The frames pd.read_csv can give once the required columns have been
\* found present.  The model follows one required column, customer_id, and
\* the two optional ones; a cell of an optional column can be blank.
AllCsvFrames ==
    LET Cells(c) ==
            CASE c = "customer_id" -> Customers
              [] c = "region_id" -> Regions \cup {NaN}
              [] c = "discount_percentage" -> {0, 10, NaN}
        CsvRows(cols) ==
            {r \in [cols -> Customers \cup Regions \cup {0, 10, NaN}] :
                \A c \in cols : r[c] \in Cells(c)}
    IN UNION {[columns : {cols}, rows : [1..n -> CsvRows(cols)]] :
                cols \in {{"customer_id"} \cup o :
                            o \in SUBSET optional_columns},
                n \in 0..MaxRows}

\* df.fillna(v): every blank cell of every column becomes v.
fillna(frame, v) ==
    [frame EXCEPT !.rows =
       [i \in DOMAIN frame.rows |->
          [c \in frame.columns |->
             IF frame.rows[i][c] = NaN THEN v ELSE frame.rows[i][c]]]]

\* The tuple built from a row, csv_loader.py 81-93, for the columns the
\* model follows.  get is row.get(column, default), whose default is None
\* when none is given, and notna is pd.notna.
data_tuple(row) ==
    LET get(c, default) == IF c \in DOMAIN row THEN row[c] ELSE default
        notna(x) == x \notin {NaN, NULL}
    IN [CUSTOMER_ID |-> row["customer_id"],
        REGION_ID |-> IF notna(get("region_id", NULL))
                      THEN get("region_id", 0)
                      ELSE NULL,
        DISCOUNT_PERCENTAGE |-> get("discount_percentage", 0)]

\* csv_loader.py 57-58: the clean-up of the frame.
LoaderClean ==
    /\ loader_pc = "read"
    /\ load_df' = fillna(load_df, 0)
    /\ loader_pc' = "cleaned"
    /\ UNCHANGED << pipeline, insight, aggregation, demo, csv_frame,
                    data_tuples >>

\* csv_loader.py 81-93: one tuple per row of df.
LoaderTuples ==
    /\ loader_pc = "cleaned"
    /\ data_tuples' = [i \in DOMAIN load_df.rows |-> data_tuple(load_df.rows[i])]
    /\ loader_pc' = "tuples"
    /\ UNCHANGED << pipeline, insight, aggregation, demo, csv_frame,
                    load_df >>

\* load_sales_data after the column check, on any frame.
LoaderInit ==
    /\ csv_frame \in AllCsvFrames
    /\ load_df = csv_frame
    /\ data_tuples = << >>
    /\ loader_pc = "read"
    /\ series = << >>
    /\ InsightIdle
    /\ sales_df = << >>
    /\ AggregationIdle
    /\ DemoIdle
    /\ PipelineAtRest

LoaderNext == LoaderClean \/ LoaderTuples

LoaderSpec == LoaderInit /\ [][LoaderNext]_vars

----------------------------------------------------------------------------
(* run_demo and the mock connector                                         *)

\* self.regions and self.customers of DemoDataGenerator, as far as Regions
\* and Customers reach.
regions ==
    << [REGION_ID |-> 1, REGION_NAME |-> "North America"],
       [REGION_ID |-> 2, REGION_NAME |-> "Europe"] >>

customers ==
    << [CUSTOMER_ID |-> 1, CUSTOMER_NAME |-> "Acme Corp", REGION_ID |-> 1],
       [CUSTOMER_ID |-> 2, CUSTOMER_NAME |-> "Tech Solutions Inc",
        REGION_ID |-> 2] >>

\* The frames generate_sales_data(num_days=90) can give: every day has at
\* least 5 transactions, so the frame has rows, and a transaction has the
\* region of its customer (line 70).
DemoFrames ==
    LET DemoTransaction ==
            {t \in Transaction :
                t.REGION_ID = customers[t.CUSTOMER_ID].REGION_ID}
    IN UNION {[1..n -> DemoTransaction] : n \in 1..MaxTxns}

\* The strings execute_query looks for in a query, character by character.
\* SUM_KPI_VALUE and AVG_KPI_VALUE stand for 'SUM(KPI_VALUE)' and
\* 'AVG(KPI_VALUE)'.
Needles ==
    [REGIONS |->
       << "R", "E", "G", "I", "O", "N", "S" >>,
     REVENUE_BY_REGION |->
       << "R", "E", "V", "E", "N", "U", "E", "_", "B", "Y", "_", "R",
          "E", "G", "I", "O", "N" >>,
     REGION_NAME |->
       << "R", "E", "G", "I", "O", "N", "_", "N", "A", "M", "E" >>,
     MONTHLY_REVENUE_TREND |->
       << "M", "O", "N", "T", "H", "L", "Y", "_", "R", "E", "V", "E",
          "N", "U", "E", "_", "T", "R", "E", "N", "D" >>,
     TOP_CUSTOMERS |->
       << "T", "O", "P", "_", "C", "U", "S", "T", "O", "M", "E", "R",
          "S" >>,
     CUSTOMER_NAME |->
       << "C", "U", "S", "T", "O", "M", "E", "R", "_", "N", "A", "M",
          "E" >>,
     KPI_RESULTS |->
       << "K", "P", "I", "_", "R", "E", "S", "U", "L", "T", "S" >>,
     KPI_NAME |->
       << "K", "P", "I", "_", "N", "A", "M", "E" >>,
     SUM_KPI_VALUE |->
       << "S", "U", "M", "(", "K", "P", "I", "_", "V", "A", "L", "U",
          "E", ")" >>,
     AVG_KPI_VALUE |->
       << "A", "V", "G", "(", "K", "P", "I", "_", "V", "A", "L", "U",
          "E", ")" >>,
     AVG_TRANSACTION_VALUE |->
       << "A", "V", "G", "_", "T", "R", "A", "N", "S", "A", "C", "T",
          "I", "O", "N", "_", "V", "A", "L", "U", "E" >>]

\* The query strings of the patched chart methods, character by character:
\* mock_plot_revenue, mock_plot_trend, mock_plot_customers and the two of
\* mock_create_dashboard.
Queries ==
    [plot_revenue |->
       << "S", "E", "L", "E", "C", "T", " ", "r", ".", "R", "E", "G",
          "I", "O", "N", "_", "N", "A", "M", "E", ",", " ", "S", "U",
          "M", "(", "k", ".", "K", "P", "I", "_", "V", "A", "L", "U",
          "E", ")", " ", "F", "R", "O", "M", " ", "K", "P", "I", "_",
          "R", "E", "S", "U", "L", "T", "S", " ", "k", " ", "J", "O",
          "I", "N", " ", "R", "E", "G", "I", "O", "N", "S", " ", "r" >>,
     plot_trend |->
       << "S", "E", "L", "E", "C", "T", " ", "K", "P", "I", "_", "D",
          "A", "T", "E", ",", " ", "K", "P", "I", "_", "V", "A", "L",
          "U", "E", " ", "F", "R", "O", "M", " ", "K", "P", "I", "_",
          "R", "E", "S", "U", "L", "T", "S", " ", "W", "H", "E", "R",
          "E", " ", "K", "P", "I", "_", "N", "A", "M", "E", " ", "=",
          " ", "'", "M", "O", "N", "T", "H", "L", "Y", "_", "R", "E",
          "V", "E", "N", "U", "E", "_", "T", "R", "E", "N", "D", "'" >>,
     plot_customers |->
       << "S", "E", "L", "E", "C", "T", " ", "c", ".", "C", "U", "S",
          "T", "O", "M", "E", "R", "_", "N", "A", "M", "E", ",", " ",
          "k", ".", "K", "P", "I", "_", "V", "A", "L", "U", "E" >>,
     dashboard_region |->
       << "S", "E", "L", "E", "C", "T", " ", "r", ".", "R", "E", "G",
          "I", "O", "N", "_", "N", "A", "M", "E", ",", " ", "S", "U",
          "M", "(", "k", ".", "K", "P", "I", "_", "V", "A", "L", "U",
          "E", ")" >>,
     dashboard_trend |->
       << "S", "E", "L", "E", "C", "T", " ", "K", "P", "I", "_", "D",
          "A", "T", "E", ",", " ", "K", "P", "I", "_", "V", "A", "L",
          "U", "E", " ", "F", "R", "O", "M", " ", "K", "P", "I", "_",
          "R", "E", "S", "U", "L", "T", "S" >>]

\* The branch of execute_query a query is answered by, lines 160-213: the
\* conditions of the if / elif chain in their order.  has(n) is `n in
\* query` on strings.
Dispatch(query) ==
    LET has(n) ==
            \E i \in 1..(Len(query) - Len(n) + 1) :
               \A j \in 1..Len(n) : query[i + j - 1] = n[j]
    IN IF has(Needles.REGIONS)
          /\ (has(Needles.REVENUE_BY_REGION) \/ has(Needles.REGION_NAME))
       THEN "revenue_by_region"
       ELSE IF has(Needles.MONTHLY_REVENUE_TREND)
       THEN "monthly_revenue_trend"
       ELSE IF has(Needles.TOP_CUSTOMERS) \/ has(Needles.CUSTOMER_NAME)
       THEN "top_customers"
       ELSE IF has(Needles.KPI_RESULTS) /\ has(Needles.KPI_NAME)
       THEN "kpi_results"
       ELSE IF has(Needles.SUM_KPI_VALUE)
               /\ has(Needles.MONTHLY_REVENUE_TREND)
       THEN "sum"
       ELSE IF has(Needles.AVG_KPI_VALUE)
               /\ has(Needles.AVG_TRANSACTION_VALUE)
       THEN "avg"
       ELSE "else"

\* The rows of one KPI_NAME in a KPI frame, in order.
OfKpiName(kpi_df, name) == SelectSeq(kpi_df, LAMBDA r : r.KPI_NAME = name)

\* Lines 160-174: the REVENUE_BY_REGION rows summed per region name, or,
\* when the KPI frame has none, the transactions summed per region.
RegionRevenueRows(f, kpi_df) ==
    LET result_df == OfKpiName(kpi_df, "REVENUE_BY_REGION")
        OfName(n) ==
            SelectSeq(result_df,
                      LAMBDA r : regions[r.REGION_ID].REGION_NAME = n)
        \* groupby('REGION_NAME') lists the names in their order.
        names == SelectSeq(<< "Europe", "North America" >>,
                           LAMBDA n : OfName(n) # << >>)
        keys == Sorted({f[i].REGION_ID : i \in DOMAIN f} \ {NULL})
    IN IF Len(result_df) > 0
       THEN [k \in DOMAIN names |->
               [REGION_NAME |-> names[k],
                TOTAL_REVENUE |-> SumValues(OfName(names[k]))]]
       ELSE [k \in DOMAIN keys |->
               [REGION_NAME |-> regions[keys[k]].REGION_NAME,
                TOTAL_REVENUE |-> SumAmount(f, InRegion(f, keys[k]))]]

\* Lines 176-184: the MONTHLY_REVENUE_TREND rows by date, or, when the KPI
\* frame has none, the transactions summed per month.
MonthlyTrendRows(f, kpi_df) ==
    LET result_df == OfKpiName(kpi_df, "MONTHLY_REVENUE_TREND")
        dates == Sorted({result_df[k].KPI_DATE : k \in DOMAIN result_df})
        months == Sorted({Month(f[i].TRANSACTION_DATE) : i \in DOMAIN f})
    IN IF Len(result_df) > 0
       THEN [k \in DOMAIN dates |->
               [KPI_DATE |-> dates[k],
                KPI_VALUE |->
                   SumValues(SelectSeq(result_df,
                                         LAMBDA r : r.KPI_DATE = dates[k]))]]
       ELSE [k \in DOMAIN months |->
               [KPI_DATE |-> months[k],
                KPI_VALUE |-> SumAmount(f, InMonth(f, months[k]))]]

\* Lines 186-191: the 10 customers with the largest summed revenue, with
\* their names.
CustomerRevenueRows(f) ==
    LET ranked == Largest(f, {f[i].CUSTOMER_ID : i \in DOMAIN f})
        top == SubSeq(ranked, 1, Min(TopCustomers, Len(ranked)))
    IN [k \in DOMAIN top |->
          [CUSTOMER_NAME |-> customers[top[k]].CUSTOMER_NAME,
           TOTAL_AMOUNT |-> SumAmount(f, OfCustomer(f, top[k]))]]

\* DemoOracleConnector.execute_query(query) without params, on the frames
\* the mock holds.  The rows of the generic branch get KPI_ID 0; a sum or
\* a mean is a single row, the mean as KPI_VALUE / DIVISOR.
execute_query(query, f, kpi_df) ==
    LET branch == Dispatch(query)
        avg == OfKpiName(kpi_df, "AVG_TRANSACTION_VALUE")
    IN CASE branch = "revenue_by_region" -> RegionRevenueRows(f, kpi_df)
         [] branch = "monthly_revenue_trend" -> MonthlyTrendRows(f, kpi_df)
         [] branch = "top_customers" -> CustomerRevenueRows(f)
         [] branch = "kpi_results" ->
              [k \in DOMAIN kpi_df |->
                 [KPI_ID |-> 0, KPI_NAME |-> kpi_df[k].KPI_NAME,
                  KPI_VALUE |-> kpi_df[k].KPI_VALUE,
                  KPI_DATE |-> kpi_df[k].KPI_DATE,
                  REGION_ID |-> kpi_df[k].REGION_ID]]
         [] branch = "sum" ->
              << [KPI_VALUE |->
                    SumValues(OfKpiName(kpi_df, "MONTHLY_REVENUE_TREND"))] >>
         [] branch = "avg" ->
              << [KPI_VALUE |-> SumValues(avg), DIVISOR |-> Len(avg)] >>
         [] OTHER -> << >>

\* The chart methods in the order generate_all_charts calls them, with what
\* their replacements in run_demo do: the queries they issue, the file they
\* write, and whether they return without a file when a query gives no
\* rows.
ChartMethods ==
    << [attr |-> "ChartGenerator.plot_revenue_by_region",
        queries |-> << "plot_revenue" >>,
        file |-> "revenue_by_region.png", needs_rows |-> TRUE],
       [attr |-> "ChartGenerator.plot_monthly_trend",
        queries |-> << "plot_trend" >>,
        file |-> "monthly_revenue_trend.png", needs_rows |-> TRUE],
       [attr |-> "ChartGenerator.plot_top_customers",
        queries |-> << "plot_customers" >>,
        file |-> "top_customers.png", needs_rows |-> TRUE],
       [attr |-> "ChartGenerator.create_interactive_dashboard",
        queries |-> << "dashboard_region", "dashboard_trend" >>,
        file |-> "interactive_dashboard.html", needs_rows |-> FALSE] >>

\* The report methods in the order generate_all_reports calls them, with
\* the file their replacements write from mock_db.kpi_df.
ReportMethods ==
    << [attr |-> "ReportGenerator.generate_kpi_summary_csv",
        file |-> "kpi_summary.csv"],
       [attr |-> "ReportGenerator.generate_text_report",
        file |-> "report.txt"],
       [attr |-> "ReportGenerator.generate_insight_file",
        file |-> "insights.txt"] >>

\* Lines 225-270: the KPI frame is built from the generated transactions,
\* both are handed to the mock connector, and the two constructors are
\* replaced.
DemoGenerate ==
    /\ demo_pc = "start"
    /\ kpi_results' = RevenueByRegionRows(sales_df)
                        \o MonthlyRevenueRows(sales_df)
                        \o TopCustomerRows(sales_df)
                        \o DailyAverageRows(sales_df)
    /\ patched' = patched \cup {"ChartGenerator.__init__",
                                "ReportGenerator.__init__"}
    /\ demo_pc' = "patch_charts"
    /\ UNCHANGED << pipeline, insight, loader, sales_df, agg_fn, agg_error,
                    total_revenue, rbr, revenue, pp, top_n, top_cust,
                    monthly, demo_unit, issued, demo_files, real_connects >>

\* A patch that leaves create_interactive_dashboard as it is.
DemoPatchChartsButDashboard ==
    /\ demo_pc = "patch_charts"
    /\ patched' = patched \cup {ChartMethods[k].attr : k \in 1..3}
    /\ demo_pc' = "charts"
    /\ demo_unit' = 1
    /\ UNCHANGED << pipeline, insight, loader, aggregation, issued,
                    demo_files, real_connects >>

\* Lines 377-384: the four chart methods are replaced and a ChartGenerator
\* is constructed.  The constructor, replaced or not, loads the
\* configuration and makes the chart directory; it opens no connection.
DemoPatchCharts ==
    /\ demo_pc = "patch_charts"
    /\ patched' =
         patched \cup {ChartMethods[k].attr : k \in DOMAIN ChartMethods}
    /\ demo_pc' = "charts"
    /\ demo_unit' = 1
    /\ UNCHANGED << pipeline, insight, loader, aggregation, issued,
                    demo_files, real_connects >>

\* A method that has not been replaced runs `with OracleConnector() as db`:
\* it connects to the Record Store, and then either fails or writes its
\* file from what the store returns.
RealMethod(m, after) ==
    /\ real_connects' = real_connects + 1
    /\ \/ /\ demo_files' =
               demo_files \cup {[name |-> m.file, source |-> "Record Store"]}
          /\ demo_pc' = after
       \/ /\ demo_pc' = "failed"
          /\ UNCHANGED demo_files
    /\ UNCHANGED issued

\* Line 385 and generate_all_charts: the chart method at hand.  Its
\* replacement asks the mock connector and writes the file, or, a chart
\* without rows, returns without one; writing the file can fail.
DemoChart ==
    /\ demo_pc = "charts"
    /\ LET m == ChartMethods[demo_unit]
           after == IF demo_unit = Len(ChartMethods)
                    THEN "patch_reports"
                    ELSE "charts"
           answers ==
               [k \in DOMAIN m.queries |->
                  [by |-> m.attr, query |-> m.queries[k],
                   rows |-> execute_query(Queries[m.queries[k]], sales_df,
                                          kpi_results)]]
       IN IF m.attr \in patched
          THEN /\ issued' = issued \o answers
               /\ UNCHANGED real_connects
               /\ IF m.needs_rows /\ answers[1].rows = << >>
                  THEN demo_pc' = after /\ UNCHANGED demo_files
                  ELSE \/ /\ demo_files' =
                               demo_files
                                 \cup {[name |-> m.file, source |-> "mock_db"]}
                          /\ demo_pc' = after
                       \/ /\ demo_pc' = "failed"
                          /\ UNCHANGED demo_files
          ELSE RealMethod(m, after)
    /\ demo_unit' = IF demo_pc' = "charts" THEN demo_unit + 1 ELSE 1
    /\ UNCHANGED << pipeline, insight, loader, aggregation, patched >>

\* Lines 389-449: a ReportGenerator is constructed and the three report
\* methods are replaced.  The replaced constructor sets insight_gen to
\* None; neither constructor opens a connection.
DemoPatchReports ==
    /\ demo_pc = "patch_reports"
    /\ patched' =
         patched \cup {ReportMethods[k].attr : k \in DOMAIN ReportMethods}
    /\ demo_pc' = "reports"
    /\ UNCHANGED << pipeline, insight, loader, aggregation, demo_unit,
                    issued, demo_files, real_connects >>

\* Line 451 and generate_all_reports: the report method at hand.  Its
\* replacement writes its file from mock_db.kpi_df, which can fail.
DemoReport ==
    /\ demo_pc = "reports"
    /\ LET m == ReportMethods[demo_unit]
           after == IF demo_unit = Len(ReportMethods)
                    THEN "done"
                    ELSE "reports"
       IN IF m.attr \in patched
          THEN /\ UNCHANGED << issued, real_connects >>
               /\ \/ /\ demo_files' =
                          demo_files
                            \cup {[name |-> m.file, source |-> "mock_db"]}
                     /\ demo_pc' = after
                  \/ /\ demo_pc' = "failed"
                     /\ UNCHANGED demo_files
          ELSE RealMethod(m, after)
    /\ demo_unit' = IF demo_pc' = "reports" THEN demo_unit + 1 ELSE 1
    /\ UNCHANGED << pipeline, insight, loader, aggregation, patched >>

\* Lines 461-463: the handler logs the failure and raises it again.
DemoExcept ==
    /\ demo_pc = "failed"
    /\ demo_pc' = "raised"
    /\ UNCHANGED << pipeline, insight, loader, aggregation, demo_unit,
                    patched, issued, demo_files, real_connects >>

\* run_demo after generate_sales_data, outside a run of main().
DemoInit ==
    /\ sales_df \in DemoFrames
    /\ AggregationIdle
    /\ demo_pc = "start"
    /\ demo_unit = 1
    /\ patched = {}
    /\ issued = << >>
    /\ demo_files = {}
    /\ real_connects = 0
    /\ series = << >>
    /\ InsightIdle
    /\ LoaderIdle
    /\ PipelineAtRest

DemoNext ==
    \/ DemoGenerate \/ DemoPatchCharts \/ DemoChart
    \/ DemoPatchReports \/ DemoReport \/ DemoExcept

DemoSpec == DemoInit /\ [][DemoNext]_vars

----------------------------------------------------------------------------
(* Properties of the connector, the loader and the demo mode               *)

\* The positions of main() inside a `with OracleConnector()` block, the exit
\* of the block included.
WithExitPcs ==
    {"load_with_exit", "validate_with_exit", "kpi_with_exit", "rep_with_exit"}

InsideWithPcs ==
    WithExitPcs \cup
    {"load_tuples", "load_executemany", "load_commit", "load_insert_except",
     "validate_callproc", "kpi_callproc", "kpi_commit", "kpi_except",
     "rep_query", "rep_render"}

C28_CommittedAtMostOnce ==
    /\ [][(csv_exists /\ ~csv_exists') =>
             /\ load_commits >= 1
             /\ pending_sales = {}
             /\ FileRows \subseteq SALES_TRANSACTIONS]_vars
    /\ []((raised_in = "Loading" /\ error = "DatabaseError" /\ runs = 1) =>
             csv_exists)
    /\ [](("Loading" \in completed) => ~csv_exists)
    /\ [][~csv_exists => load_commits' = load_commits]_vars
    /\ [](csv_rows > 0 => load_commits <= 1)

\* C29: the loader keeps region_id nullable: a row whose region_id is
\* absent or blank in the input is inserted with a null region_id, never
\* with a substituted region number such as 0, whether or not the file has
\* a region_id column; a region_id that is present is inserted as it is.
C29_NullRegionPreserved ==
    loader_pc = "tuples" =>
        /\ Len(data_tuples) = Len(csv_frame.rows)
        /\ \A i \in DOMAIN csv_frame.rows :
             IF "region_id" \in csv_frame.columns
                /\ csv_frame.rows[i]["region_id"] # NaN
             THEN data_tuples[i].REGION_ID = csv_frame.rows[i]["region_id"]
             ELSE data_tuples[i].REGION_ID = NULL

\* C27: a run of run_demo never opens a connection to the real Record
\* Store: every chart and report file it writes comes from a replaced
\* method that read the frames of the mock connector, and every query of
\* the run went to the mock.
C27_DemoNeverConnects ==
    /\ real_connects = 0
    /\ open_connections = 0
    /\ \A f \in demo_files : f.source = "mock_db"
    /\ \A k \in DOMAIN issued : issued[k].by \in patched

C27_Witness ==
    /\ demo_pc = "done"
    /\ real_connects = 0
    /\ {f.name : f \in demo_files}
         = {ChartMethods[k].file : k \in DOMAIN ChartMethods}
             \cup {ReportMethods[k].file : k \in DOMAIN ReportMethods}
    /\ Len(issued) = 5

\* C30: every query the replaced chart methods issue (the region, trend and
\* customer charts and both queries of the interactive dashboard) is
\* answered by a data-returning branch of the mock's execute_query, so it
\* returns rows whenever the KPI frame of the mock has rows.
C30_ChartQueriesAnswered ==
    \A k \in DOMAIN issued :
       /\ Dispatch(Queries[issued[k].query]) # "else"
       /\ kpi_results # << >> => issued[k].rows # << >>

=============================================================================
